---- MODULE Spec2Model ----
(***************************************************************************)
(* The order / table / inventory / sales engine of the restaurant server  *)
(* (src/unnamed/part_000, a Hono application over a key-value store).     *)
(*                                                                         *)
(* Every handler is a sequence of awaited key-value calls.  A handler is   *)
(* modelled as one action per awaited call: the call together with the     *)
(* synchronous code that follows it up to the next await.  Between two     *)
(* awaits other requests may run, so a specification over several request  *)
(* slots interleaves handlers exactly at these points, and a specification *)
(* over one slot runs each handler to completion before the next starts.   *)
(*                                                                         *)
(* Not modelled: createdAt / timestamp fields (Date.now(), read only by    *)
(* the clients' sort), and IEEE-754 rounding: money is held as an integer  *)
(* number of tenths of the currency unit, so that "subtotal * 1.1" is the  *)
(* exact value subtotal * 11 tenths.                                       *)
(***************************************************************************)
EXTENDS Integers, Sequences, FiniteSets, TLC

VARIABLES
    kv,      \* the key-value store: one map per entity kind (the key's first segment)
    req,     \* req[p]: the request handled in slot p, its position and its locals
    minted,  \* how many ids crypto.randomUUID() has produced, per entity kind
    today,   \* the calendar day new Date().toISOString().split('T')[0] yields
    pre,     \* history: the store as it was when the request now running started
    run      \* history: the placeOrder calls of an undisturbed run, and the sum of the
             \* deltas POST /inventory was given per ingredient

vars == <<kv, req, minted, today, pre, run>>

----------------------------------------------------------------------------
(* Program constants and bounds                                            *)

NumTables == 10          \* tables provisioned at signup
PaidToken == "PAID"      \* the accepted payment token

MaxRestaurants == 2      \* restaurant ids minted in a run
MaxOrders == 2           \* order ids minted in a run
MaxCloses == 2           \* sales counted per restaurant and day
MaxProducts == 2         \* product ids minted in a run
MaxStock == 4            \* largest stock level a restock may reach
MaxDays == 2             \* calendar days a run spans
MaxCart == 2             \* largest quantity of one cart entry

----------------------------------------------------------------------------
(* The key-value store (kv_store.tsx): get / set / del / getByPrefix.      *)
(* A key "<kind>:<restaurantId>:<sub>" is the map kv[kind] at <<rid, sub>>.*)

EmptyMap == [x \in {} |-> x]

kvHas(m, k) == k \in DOMAIN m

kvSet(m, k, v) == [x \in (DOMAIN m) \cup {k} |-> IF x = k THEN v ELSE m[x]]

kvDel(m, k) == [x \in (DOMAIN m) \ {k} |-> m[x]]

kvGetByPrefix(m, rid) == {m[k] : k \in {x \in DOMAIN m : x[1] = rid}}

EmptyStore ==
    [restaurant |-> EmptyMap, email |-> EmptyMap, table |-> EmptyMap,
     order |-> EmptyMap, product |-> EmptyMap, inventory |-> EmptyMap,
     sales |-> EmptyMap]

----------------------------------------------------------------------------
(* Requests                                                                *)

NoRes == [status |-> 0, error |-> ""]

Idle == [op |-> "idle", pc |-> "idle", res |-> NoRes]

\* c.json(body, status): the handler returns
Reply(r, status, error) ==
    [r EXCEPT !.pc = "done", !.res = [status |-> status, error |-> error]]

Quiescent == \A p \in DOMAIN req : req[p].pc \in {"idle", "done"}

RECURSIVE SumSeq(_)
SumSeq(s) == IF Len(s) = 0 THEN 0 ELSE s[1] + SumSeq([n \in 1..(Len(s) - 1) |-> s[n + 1]])

\* the history variable pre is kept by the specifications that start it switched on
Snap == IF pre.on THEN [pre EXCEPT !.kv = kv, !.minted = minted] ELSE pre

\* the response has been sent
Return(p) ==
    /\ req[p].pc = "done"
    /\ req' = [req EXCEPT ![p] = Idle]
    /\ pre' = Snap
    /\ UNCHANGED <<kv, minted, today, run>>

\* history: any mutation other than a placeOrder ends the undisturbed run
Taint == IF run.ok THEN [run EXCEPT !.ok = FALSE, !.placed = <<>>] ELSE run

\* history: the sum of the deltas the POST /inventory calls wrote, per ingredient,
\* kept by the specifications that start it with audit switched on
LogStock(r) ==
    LET key == <<r.body.restaurantId, r.body.ingredient>>
    IN  IF run.audit
        THEN [run EXCEPT !.stocked =
                 kvSet(@, key, (IF kvHas(@, key) THEN @[key] ELSE 0) + r.body.quantity)]
        ELSE run

\* history: the password the last completed POST /set-manager-password wrote, per
\* restaurant, kept like LogStock
LogManager(r) ==
    IF run.audit THEN [run EXCEPT !.manager = kvSet(@, r.restaurantId, r.password)]
    ELSE run

\* history: how many POST /tables/.../close calls have succeeded, per restaurant
\* and day, kept like LogStock
LogClose(r) ==
    LET key == <<r.restaurantId, r.day>>
    IN  IF run.audit
        THEN [run EXCEPT !.closes = kvSet(@, key, (IF kvHas(@, key) THEN @[key] ELSE 0) + 1)]
        ELSE run

NewRun(on, audit) ==
    [ok |-> on, placed |-> <<>>, audit |-> audit, stocked |-> EmptyMap,
     manager |-> EmptyMap, closes |-> EmptyMap]

----------------------------------------------------------------------------
(* POST /signup                                                            *)

NewRestaurant(id, email, password, restaurantName) ==
    [id |-> id, email |-> email, password |-> password, name |-> restaurantName,
     paid |-> TRUE, managerPassword |-> ""]

NewTable(i) == [number |-> i, orders |-> <<>>]

SignupLoopGuard_lt(i) == i < NumTables

\* for (let i = 1; i <= 10; i++)
SignupLoopGuard(i) == i <= NumTables

MissingSignupFields(email, password, restaurantName, paymentToken) ==
    email = "" \/ password = "" \/ restaurantName = "" \/ paymentToken = ""

PaymentOk_any(paymentToken) == TRUE

PaymentOk(paymentToken) == paymentToken = PaidToken

EmailTaken_never(store, email) == FALSE

\* const existingId = await kv.get(`restaurant:email:${email}`); if (existingId)
EmailTaken(store, email) == kvHas(store.email, email)

\* the body is read and validated, the payment token checked, the email index read
Signup(p, email, password, restaurantName, paymentToken) ==
    /\ req[p].pc = "idle"
    /\ LET r == [op |-> "signup", pc |-> "set_restaurant", res |-> NoRes,
                 email |-> email, password |-> password,
                 restaurantName |-> restaurantName, paymentToken |-> paymentToken,
                 restaurantId |-> 0, i |-> 0]
       IN  IF MissingSignupFields(email, password, restaurantName, paymentToken)
           THEN /\ req' = [req EXCEPT ![p] = Reply(r, 400, "Missing required fields")]
                /\ UNCHANGED minted
           ELSE IF ~PaymentOk(paymentToken)
           THEN /\ req' = [req EXCEPT ![p] = Reply(r, 402, "Payment required to create account")]
                /\ UNCHANGED minted
           ELSE IF EmailTaken(kv, email)
           THEN /\ req' = [req EXCEPT ![p] = Reply(r, 400, "Email already registered")]
                /\ UNCHANGED minted
           ELSE /\ minted.restaurant < MaxRestaurants
                /\ minted' = [minted EXCEPT !.restaurant = @ + 1]
                /\ req' = [req EXCEPT ![p] = [r EXCEPT !.restaurantId = minted.restaurant + 1]]
    /\ pre' = Snap
    /\ UNCHANGED <<kv, today, run>>

SignupSetRestaurant(p) ==
    /\ req[p].op = "signup" /\ req[p].pc = "set_restaurant"
    /\ LET r == req[p]
       IN  /\ kv' = [kv EXCEPT !.restaurant =
                        kvSet(@, r.restaurantId,
                              NewRestaurant(r.restaurantId, r.email, r.password, r.restaurantName))]
           /\ req' = [req EXCEPT ![p] = [r EXCEPT !.pc = "set_email"]]
    /\ UNCHANGED <<minted, today, pre, run>>

SignupSetEmail(p) ==
    /\ req[p].op = "signup" /\ req[p].pc = "set_email"
    /\ LET r == req[p]
       IN  /\ kv' = [kv EXCEPT !.email = kvSet(@, r.email, r.restaurantId)]
           /\ req' = [req EXCEPT ![p] =
                         IF SignupLoopGuard(1)
                         THEN [r EXCEPT !.pc = "set_table", !.i = 1]
                         ELSE Reply(r, 200, "")]
    /\ UNCHANGED <<minted, today, pre, run>>

SignupSetTable(p) ==
    /\ req[p].op = "signup" /\ req[p].pc = "set_table"
    /\ LET r == req[p]
       IN  /\ kv' = [kv EXCEPT !.table = kvSet(@, <<r.restaurantId, r.i>>, NewTable(r.i))]
           /\ req' = [req EXCEPT ![p] =
                         IF SignupLoopGuard(r.i + 1)
                         THEN [r EXCEPT !.i = r.i + 1]
                         ELSE Reply(r, 200, "")]
    /\ UNCHANGED <<minted, today, pre, run>>

\* GET /tables/:restaurantId
ListTables(store, rid) == kvGetByPrefix(store.table, rid)

GetTables(p, restaurantId) ==
    /\ req[p].pc = "idle"
    /\ LET r == [op |-> "getTables", pc |-> "done", res |-> NoRes,
                 restaurantId |-> restaurantId, listed |-> ListTables(kv, restaurantId)]
       IN  req' = [req EXCEPT ![p] = Reply(r, 200, "")]
    /\ pre' = Snap
    /\ UNCHANGED <<kv, minted, today, run>>

----------------------------------------------------------------------------
(* POST /login                                                             *)

NoLogin == [restaurantId |-> 0, restaurantName |-> "", hasManagerPassword |-> FALSE]

PasswordMatches_any(restaurant, password) == TRUE

\* restaurant.password !== password is false
PasswordMatches(restaurant, password) == restaurant.password = password

\* { restaurantId, restaurantName: restaurant.name,
\*   hasManagerPassword: !!restaurant.managerPassword }
LoginResult(restaurantId, restaurant) ==
    [restaurantId |-> restaurantId, restaurantName |-> restaurant.name,
     hasManagerPassword |-> restaurant.managerPassword # ""]

\* the body is checked and the email index read
Login(p, email, password) ==
    /\ req[p].pc = "idle"
    /\ LET r == [op |-> "login", pc |-> "get_restaurant", res |-> NoRes,
                 email |-> email, password |-> password, restaurantId |-> 0,
                 out |-> NoLogin]
       IN  req' = [req EXCEPT ![p] =
                      IF email = "" \/ password = ""
                      THEN Reply(r, 400, "Missing email or password")
                      ELSE IF ~kvHas(kv.email, email)
                      THEN Reply(r, 401, "Invalid credentials")
                      ELSE [r EXCEPT !.restaurantId = kv.email[email]]]
    /\ pre' = Snap
    /\ UNCHANGED <<kv, minted, today, run>>

\* const restaurant = await kv.get(`restaurant:${restaurantId}`)
LoginGetRestaurant(p) ==
    /\ req[p].op = "login" /\ req[p].pc = "get_restaurant"
    /\ LET r == req[p]
       IN  req' = [req EXCEPT ![p] =
                      IF ~kvHas(kv.restaurant, r.restaurantId)
                      THEN Reply(r, 401, "Invalid credentials")
                      ELSE IF ~PasswordMatches(kv.restaurant[r.restaurantId], r.password)
                      THEN Reply(r, 401, "Invalid credentials")
                      ELSE Reply([r EXCEPT !.out =
                                     LoginResult(r.restaurantId,
                                                 kv.restaurant[r.restaurantId])],
                                 200, "")]
    /\ UNCHANGED <<kv, minted, today, pre, run>>

----------------------------------------------------------------------------
(* POST /set-manager-password and POST /verify-manager                     *)

SetManager_once(restaurant, password) ==
    IF restaurant.managerPassword = ""
    THEN [restaurant EXCEPT !.managerPassword = password] ELSE restaurant

\* restaurant.managerPassword = password
SetManager(restaurant, password) == [restaurant EXCEPT !.managerPassword = password]

\* the body is read and the restaurant fetched: the request stands before its write
SetManagerPasswordAt(store, restaurantId, password) ==
    LET r == [op |-> "setManagerPassword", pc |-> "set_restaurant", res |-> NoRes,
              restaurantId |-> restaurantId, password |-> password,
              restaurant |-> NewRestaurant(0, "", "", "")]
    IN  IF ~kvHas(store.restaurant, restaurantId)
        THEN Reply(r, 404, "Restaurant not found")
        ELSE [r EXCEPT !.restaurant = SetManager(store.restaurant[restaurantId], password)]

SetManagerPassword(p, restaurantId, password) ==
    /\ req[p].pc = "idle"
    /\ req' = [req EXCEPT ![p] = SetManagerPasswordAt(kv, restaurantId, password)]
    /\ pre' = Snap
    /\ run' = Taint
    /\ UNCHANGED <<kv, minted, today>>

\* await kv.set(`restaurant:${restaurantId}`, restaurant)
SetManagerPasswordSet(p) ==
    /\ req[p].op = "setManagerPassword" /\ req[p].pc = "set_restaurant"
    /\ LET r == req[p]
       IN  /\ kv' = [kv EXCEPT !.restaurant = kvSet(@, r.restaurantId, r.restaurant)]
           /\ req' = [req EXCEPT ![p] = Reply(r, 200, "")]
           /\ run' = LogManager(r)
    /\ UNCHANGED <<minted, today, pre>>

\* restaurant.managerPassword !== password is false
ManagerMatches(restaurant, password) == restaurant.managerPassword = password

\* the handler's answer to the body { restaurantId, password } on the store
VerifyManagerReply(store, restaurantId, password) ==
    LET r == [op |-> "verifyManager", pc |-> "done", res |-> NoRes,
              restaurantId |-> restaurantId, password |-> password]
    IN  IF ~kvHas(store.restaurant, restaurantId)
        THEN Reply(r, 404, "Restaurant not found")
        ELSE IF ~ManagerMatches(store.restaurant[restaurantId], password)
        THEN Reply(r, 401, "Invalid manager password")
        ELSE Reply(r, 200, "")

VerifyManager(p, restaurantId, password) ==
    /\ req[p].pc = "idle"
    /\ req' = [req EXCEPT ![p] = VerifyManagerReply(kv, restaurantId, password)]
    /\ pre' = Snap
    /\ UNCHANGED <<kv, minted, today, run>>

----------------------------------------------------------------------------
(* POST /orders                                                            *)

HasItems(x) == "items" \in DOMAIN x

\* const order = { id, restaurantId, tableNumber, items, status: "pending" }
\* (a body without items gives an order stored without the items key)
NewOrder(orderId, body) ==
    IF HasItems(body)
    THEN [id |-> orderId, restaurantId |-> body.restaurantId,
          tableNumber |-> body.tableNumber, items |-> body.items, status |-> "pending"]
    ELSE [id |-> orderId, restaurantId |-> body.restaurantId,
          tableNumber |-> body.tableNumber, status |-> "pending"]

LinkOrder_none(table, orderId) == table

LinkOrder_twice(table, orderId) == [table EXCEPT !.orders = @ \o <<orderId, orderId>>]

LinkOrder_front(table, orderId) == [table EXCEPT !.orders = <<orderId>> \o @]

\* table.orders = table.orders || []; table.orders.push(orderId)
LinkOrder(table, orderId) == [table EXCEPT !.orders = Append(@, orderId)]

Deduct_none(current, ingredient, item) == current

Deduct_once(current, ingredient, item) ==
    [current EXCEPT !.quantity = @ - ingredient.quantity]

\* current.quantity -= ingredient.quantity * item.quantity
Deduct(current, ingredient, item) ==
    [current EXCEPT !.quantity = @ - ingredient.quantity * item.quantity]

\* history: the placeOrder calls that returned success, while no other mutation ran
LogPlace(r) ==
    IF run.ok /\ r.pc = "done" /\ r.res.status = 200
    THEN [run EXCEPT !.placed =
             Append(@, [restaurantId |-> r.body.restaurantId,
                        tableNumber |-> r.body.tableNumber,
                        id |-> r.orderId, items |-> r.body.items])]
    ELSE run

\* for (const item of items): the loop stands before item i
PlaceOrderAtItem(r, i) ==
    IF ~HasItems(r.body) THEN Reply(r, 500, "Failed to create order")
    ELSE IF i > Len(r.body.items) THEN Reply(r, 200, "")
    ELSE [r EXCEPT !.pc = "get_product", !.i = i]

\* for (const ingredient of product.ingredients): the loop stands before ingredient j
PlaceOrderAtIngredient(r, j) ==
    IF j > Len(r.ingredients) THEN PlaceOrderAtItem(r, r.i + 1)
    ELSE [r EXCEPT !.pc = "get_inventory", !.j = j]

\* the body is read, the order id minted and the order record written; senders
\* is req as the sender of the request leaves it
PlaceOrderFrom(p, body, senders) ==
    /\ req[p].pc = "idle"
    /\ minted.order < MaxOrders
    /\ LET orderId == minted.order + 1
           r == [op |-> "placeOrder", pc |-> "get_table", res |-> NoRes,
                 body |-> body, orderId |-> orderId, table |-> NewTable(0),
                 i |-> 0, j |-> 0, ingredients |-> <<>>,
                 current |-> [quantity |-> 0]]
       IN  /\ minted' = [minted EXCEPT !.order = orderId]
           /\ kv' = [kv EXCEPT !.order =
                        kvSet(@, <<body.restaurantId, orderId>>, NewOrder(orderId, body))]
           /\ req' = [senders EXCEPT ![p] = r]
    /\ pre' = Snap
    /\ UNCHANGED <<today, run>>

PlaceOrder(p, body) == PlaceOrderFrom(p, body, req)

\* const table = await kv.get(`table:...`); if (table) { ...push... }
PlaceOrderAtTable_create(r, store) ==
    LET key == <<r.body.restaurantId, r.body.tableNumber>>
    IN  [r EXCEPT !.pc = "set_table",
                  !.table = LinkOrder(IF kvHas(store.table, key) THEN store.table[key]
                                      ELSE NewTable(r.body.tableNumber), r.orderId)]

\* if (table) { table.orders.push(orderId); ... } : without a table record the
\* handler goes on to the items
PlaceOrderAtTable(r, store) ==
    LET key == <<r.body.restaurantId, r.body.tableNumber>>
    IN  IF kvHas(store.table, key)
        THEN [r EXCEPT !.pc = "set_table", !.table = LinkOrder(store.table[key], r.orderId)]
        ELSE PlaceOrderAtItem(r, 1)

PlaceOrderGetTable(p) ==
    /\ req[p].op = "placeOrder" /\ req[p].pc = "get_table"
    /\ LET r2 == PlaceOrderAtTable(req[p], kv)
       IN  /\ req' = [req EXCEPT ![p] = r2]
           /\ run' = LogPlace(r2)
    /\ UNCHANGED <<kv, minted, today, pre>>

\* await kv.set(`table:...`, table)
PlaceOrderSetTable(p) ==
    /\ req[p].op = "placeOrder" /\ req[p].pc = "set_table"
    /\ LET r == req[p]
           key == <<r.body.restaurantId, r.body.tableNumber>>
           r2 == PlaceOrderAtItem(r, 1)
       IN  /\ kv' = [kv EXCEPT !.table = kvSet(@, key, r.table)]
           /\ req' = [req EXCEPT ![p] = r2]
           /\ run' = LogPlace(r2)
    /\ UNCHANGED <<minted, today, pre>>

\* const product = await kv.get(`product:...`); if (product && product.ingredients)
PlaceOrderGetProduct(p) ==
    /\ req[p].op = "placeOrder" /\ req[p].pc = "get_product"
    /\ LET r == req[p]
           key == <<r.body.restaurantId, r.body.items[r.i].productId>>
           r2 == IF kvHas(kv.product, key)
                 THEN PlaceOrderAtIngredient(
                          [r EXCEPT !.ingredients = kv.product[key].ingredients], 1)
                 ELSE PlaceOrderAtItem(r, r.i + 1)
       IN  /\ req' = [req EXCEPT ![p] = r2]
           /\ run' = LogPlace(r2)
    /\ UNCHANGED <<kv, minted, today, pre>>

\* const current = await kv.get(inventoryKey); if (current) { current.quantity -= ... }
PlaceOrderGetInventory(p) ==
    /\ req[p].op = "placeOrder" /\ req[p].pc = "get_inventory"
    /\ LET r == req[p]
           ingredient == r.ingredients[r.j]
           key == <<r.body.restaurantId, ingredient.name>>
           r2 == IF kvHas(kv.inventory, key)
                 THEN [r EXCEPT !.pc = "set_inventory",
                                !.current = Deduct(kv.inventory[key], ingredient,
                                                   r.body.items[r.i])]
                 ELSE PlaceOrderAtIngredient(r, r.j + 1)
       IN  /\ req' = [req EXCEPT ![p] = r2]
           /\ run' = LogPlace(r2)
    /\ UNCHANGED <<kv, minted, today, pre>>

\* await kv.set(inventoryKey, current)
PlaceOrderSetInventory(p) ==
    /\ req[p].op = "placeOrder" /\ req[p].pc = "set_inventory"
    /\ LET r == req[p]
           key == <<r.body.restaurantId, r.ingredients[r.j].name>>
           r2 == PlaceOrderAtIngredient(r, r.j + 1)
       IN  /\ kv' = [kv EXCEPT !.inventory = kvSet(@, key, r.current)]
           /\ req' = [req EXCEPT ![p] = r2]
           /\ run' = LogPlace(r2)
    /\ UNCHANGED <<minted, today, pre>>

----------------------------------------------------------------------------
(* GET /kitchen-orders/:restaurantId                                       *)

IsKitchenOrder_pending(order) == order.status = "pending"

\* order.status === "pending" && order.items.some(item => item.category === "food")
IsKitchenOrder(order) ==
    /\ order.status = "pending"
    /\ \E n \in 1..Len(order.items) : order.items[n].category = "food"

\* order.items is undefined and .some is called on it
KitchenThrows(order) == order.status = "pending" /\ ~HasItems(order)

KitchenOrders(p, restaurantId) ==
    /\ req[p].pc = "idle"
    /\ LET r == [op |-> "kitchenOrders", pc |-> "done", res |-> NoRes,
                 restaurantId |-> restaurantId, orders |-> {}]
           allOrders == kvGetByPrefix(kv.order, restaurantId)
       IN  req' = [req EXCEPT ![p] =
                      IF \E order \in allOrders : KitchenThrows(order)
                      THEN Reply(r, 500, "Failed to fetch kitchen orders")
                      ELSE Reply([r EXCEPT !.orders =
                                     {order \in allOrders : IsKitchenOrder(order)}],
                                 200, "")]
    /\ pre' = Snap
    /\ UNCHANGED <<kv, minted, today, run>>

----------------------------------------------------------------------------
(* PUT /orders/:orderId/ready                                              *)

\* order.status = "ready"
SetReady_keep(order) == order

SetReady(order) == [order EXCEPT !.status = "ready"]

MarkReady(p, restaurantId, orderId) ==
    /\ req[p].pc = "idle"
    /\ LET r == [op |-> "markReady", pc |-> "set_order", res |-> NoRes,
                 restaurantId |-> restaurantId, orderId |-> orderId,
                 order |-> [status |-> ""]]
           key == <<restaurantId, orderId>>
       IN  req' = [req EXCEPT ![p] =
                      IF kvHas(kv.order, key)
                      THEN [r EXCEPT !.order = SetReady(kv.order[key])]
                      ELSE Reply(r, 404, "Order not found")]
    /\ pre' = Snap
    /\ run' = Taint
    /\ UNCHANGED <<kv, minted, today>>

MarkReadySetOrder(p) ==
    /\ req[p].op = "markReady" /\ req[p].pc = "set_order"
    /\ LET r == req[p]
       IN  /\ kv' = [kv EXCEPT !.order = kvSet(@, <<r.restaurantId, r.orderId>>, r.order)]
           /\ req' = [req EXCEPT ![p] = Reply(r, 200, "")]
    /\ UNCHANGED <<minted, today, pre, run>>

----------------------------------------------------------------------------
(* DELETE /orders/:orderId                                                 *)

DeleteOrder_anywhere(store, restaurantId, orderId) ==
    [store EXCEPT !.order = [k \in {x \in DOMAIN @ : x[2] # orderId} |-> @[k]]]

DeleteOrder_pending(store, restaurantId, orderId) ==
    IF kvHas(store.order, <<restaurantId, orderId>>)
       /\ store.order[<<restaurantId, orderId>>].status = "pending"
    THEN [store EXCEPT !.order = kvDel(@, <<restaurantId, orderId>>)]
    ELSE store

\* await kv.del(`order:${restaurantId}:${orderId}`)
DeleteOrder(store, restaurantId, orderId) ==
    [store EXCEPT !.order = kvDel(@, <<restaurantId, orderId>>)]

CompleteOrder(p, restaurantId, orderId) ==
    /\ req[p].pc = "idle"
    /\ LET r == [op |-> "completeOrder", pc |-> "done", res |-> NoRes,
                 restaurantId |-> restaurantId, orderId |-> orderId]
       IN  /\ kv' = DeleteOrder(kv, restaurantId, orderId)
           /\ req' = [req EXCEPT ![p] = Reply(r, 200, "")]
    /\ pre' = Snap
    /\ run' = Taint
    /\ UNCHANGED <<minted, today>>

----------------------------------------------------------------------------
(* PUT /orders/:orderId/items                                              *)

Splice_none(items, itemIndex) == items

\* Array.prototype.splice(start, 1) on a 0-based index
Splice(items, itemIndex) ==
    LET len == Len(items)
        start == IF itemIndex < 0
                 THEN (IF len + itemIndex < 0 THEN 0 ELSE len + itemIndex)
                 ELSE (IF itemIndex > len THEN len ELSE itemIndex)
    IN  [n \in 1..(IF start < len THEN len - 1 ELSE len) |->
            IF n <= start THEN items[n] ELSE items[n + 1]]

InRange_upward(items, itemIndex) == itemIndex >= 0

\* order.items[itemIndex] is an element of the array
InRange(items, itemIndex) == itemIndex >= 0 /\ itemIndex < Len(items)

SetQuantity_all(items, itemIndex, quantity) ==
    [n \in 1..Len(items) |-> [items[n] EXCEPT !.quantity = quantity]]

\* order.items[itemIndex].quantity = quantity
SetQuantity(items, itemIndex, quantity) ==
    [items EXCEPT ![itemIndex + 1] = [@ EXCEPT !.quantity = quantity]]

UpdateItems(p, restaurantId, orderId, itemIndex, quantity) ==
    /\ req[p].pc = "idle"
    /\ LET r == [op |-> "updateItems", pc |-> "set_order", res |-> NoRes,
                 restaurantId |-> restaurantId, orderId |-> orderId,
                 itemIndex |-> itemIndex, quantity |-> quantity,
                 order |-> [status |-> ""]]
           key == <<restaurantId, orderId>>
       IN  req' = [req EXCEPT ![p] =
                      IF ~kvHas(kv.order, key)
                      THEN Reply(r, 404, "Order not found")
                      ELSE IF ~HasItems(kv.order[key])
                      THEN Reply(r, 500, "Failed to update order item")
                      ELSE IF quantity = 0
                      THEN [r EXCEPT !.order =
                               [kv.order[key] EXCEPT !.items = Splice(@, itemIndex)]]
                      ELSE IF InRange(kv.order[key].items, itemIndex)
                      THEN [r EXCEPT !.order =
                               [kv.order[key] EXCEPT
                                   !.items = SetQuantity(@, itemIndex, quantity)]]
                      ELSE Reply(r, 500, "Failed to update order item")]
    /\ pre' = Snap
    /\ run' = Taint
    /\ UNCHANGED <<kv, minted, today>>

UpdateItemsSetOrder(p) ==
    /\ req[p].op = "updateItems" /\ req[p].pc = "set_order"
    /\ LET r == req[p]
       IN  /\ kv' = [kv EXCEPT !.order = kvSet(@, <<r.restaurantId, r.orderId>>, r.order)]
           /\ req' = [req EXCEPT ![p] = Reply(r, 200, "")]
    /\ UNCHANGED <<minted, today, pre, run>>

----------------------------------------------------------------------------
(* GET /tables/:restaurantId/:tableNumber/orders                           *)

ListTableOrders(store, restaurantId, tableNumber) ==
    IF ~kvHas(store.table, <<restaurantId, tableNumber>>) THEN <<>>
    ELSE LET ids == SelectSeq(store.table[<<restaurantId, tableNumber>>].orders,
                              LAMBDA id : kvHas(store.order, <<restaurantId, id>>))
         IN  [n \in 1..Len(ids) |-> store.order[<<restaurantId, ids[n]>>]]

PushIfFound_front(orders, store, restaurantId, orderId) ==
    IF kvHas(store.order, <<restaurantId, orderId>>)
    THEN <<store.order[<<restaurantId, orderId>>]>> \o orders
    ELSE orders

\* const order = await kv.get(...); if (order) { orders.push(order); }
PushIfFound(orders, store, restaurantId, orderId) ==
    IF kvHas(store.order, <<restaurantId, orderId>>)
    THEN Append(orders, store.order[<<restaurantId, orderId>>])
    ELSE orders

\* for (const orderId of (table.orders || [])): the loop stands before id k
TableOrdersAtId(r, k) ==
    IF k > Len(r.ids) THEN Reply(r, 200, "")
    ELSE [r EXCEPT !.pc = "get_order", !.k = k]

TableOrders(p, restaurantId, tableNumber) ==
    /\ req[p].pc = "idle"
    /\ LET r == [op |-> "tableOrders", pc |-> "get_order", res |-> NoRes,
                 restaurantId |-> restaurantId, tableNumber |-> tableNumber,
                 ids |-> <<>>, k |-> 1, orders |-> <<>>]
           key == <<restaurantId, tableNumber>>
       IN  req' = [req EXCEPT ![p] =
                      IF ~kvHas(kv.table, key) THEN Reply(r, 200, "")
                      ELSE TableOrdersAtId([r EXCEPT !.ids = kv.table[key].orders], 1)]
    /\ pre' = Snap
    /\ UNCHANGED <<kv, minted, today, run>>

TableOrdersGetOrder(p) ==
    /\ req[p].op = "tableOrders" /\ req[p].pc = "get_order"
    /\ LET r == req[p]
           r2 == [r EXCEPT !.orders = PushIfFound(@, kv, r.restaurantId, r.ids[r.k])]
       IN  req' = [req EXCEPT ![p] = TableOrdersAtId(r2, r.k + 1)]
    /\ UNCHANGED <<kv, minted, today, pre, run>>

----------------------------------------------------------------------------
(* POST /tables/:restaurantId/:tableNumber/close                           *)

\* a default record that already counts one sale
NoSales_one(day) == [date |-> day, total |-> 0, count |-> 1]

\* sales = { date: today, total: 0, count: 0 }
NoSales(day) == [date |-> day, total |-> 0, count |-> 0]

ServiceFee_none(subtotal) == subtotal * 10

\* subtotal * 1.1, in tenths of the currency unit
ServiceFee(subtotal) == subtotal * 11

RecordSale_first(sales, subtotal) ==
    [sales EXCEPT !.total = @ + ServiceFee(subtotal),
                  !.count = IF @ = 0 THEN 1 ELSE @]

\* sales.total += subtotal * 1.1; sales.count += 1
RecordSale(sales, subtotal) ==
    [sales EXCEPT !.total = @ + ServiceFee(subtotal), !.count = @ + 1]

\* table.orders = []
ClearOrders(table) == [table EXCEPT !.orders = <<>>]

SalesCount(store, restaurantId, day) ==
    IF kvHas(store.sales, <<restaurantId, day>>)
    THEN store.sales[<<restaurantId, day>>].count ELSE 0

CloseTableAtTable_create(r, store) ==
    LET key == <<r.restaurantId, r.tableNumber>>
    IN  IF ~kvHas(store.table, key)
        THEN [r EXCEPT !.table = NewTable(r.tableNumber), !.pc = "set_table"]
        ELSE [r EXCEPT !.table = store.table[key],
                       !.pc = IF Len(store.table[key].orders) > 0
                              THEN "del_order" ELSE "set_table"]

\* const table = await kv.get(tableKey); if (!table) return 404
CloseTableAtTable(r, store) ==
    LET key == <<r.restaurantId, r.tableNumber>>
    IN  IF ~kvHas(store.table, key)
        THEN Reply(r, 404, "Table not found")
        ELSE [r EXCEPT !.table = store.table[key],
                       !.pc = IF Len(store.table[key].orders) > 0
                              THEN "del_order" ELSE "set_table"]

CloseTable(p, restaurantId, tableNumber, subtotal) ==
    /\ req[p].pc = "idle"
    /\ SalesCount(kv, restaurantId, today) < MaxCloses
    /\ LET r == [op |-> "closeTable", pc |-> "del_order", res |-> NoRes,
                 restaurantId |-> restaurantId, tableNumber |-> tableNumber,
                 subtotal |-> subtotal, table |-> NewTable(0), k |-> 1,
                 day |-> 0, sales |-> NoSales(0)]
       IN  req' = [req EXCEPT ![p] = CloseTableAtTable(r, kv)]
    /\ pre' = Snap
    /\ run' = Taint
    /\ UNCHANGED <<kv, minted, today>>

\* the same request with a body that is not JSON: c.req.json() will throw, so the
\* request carries no subtotal
CloseTableUnreadable(p, restaurantId, tableNumber) ==
    /\ req[p].pc = "idle"
    /\ LET r == [op |-> "closeTable", pc |-> "del_order", res |-> NoRes,
                 restaurantId |-> restaurantId, tableNumber |-> tableNumber,
                 table |-> NewTable(0), k |-> 1, day |-> 0, sales |-> NoSales(0)]
       IN  req' = [req EXCEPT ![p] = CloseTableAtTable(r, kv)]
    /\ pre' = Snap
    /\ run' = Taint
    /\ UNCHANGED <<kv, minted, today>>

\* for (const orderId of table.orders) await kv.del(`order:...`)
CloseTableDelOrder(p) ==
    /\ req[p].op = "closeTable" /\ req[p].pc = "del_order"
    /\ LET r == req[p]
       IN  /\ kv' = [kv EXCEPT !.order = kvDel(@, <<r.restaurantId, r.table.orders[r.k]>>)]
           /\ req' = [req EXCEPT ![p] =
                         IF r.k < Len(r.table.orders)
                         THEN [r EXCEPT !.k = r.k + 1]
                         ELSE [r EXCEPT !.pc = "set_table"]]
    /\ UNCHANGED <<minted, today, pre, run>>

\* table.orders = []; await kv.set(`table:...`, table); then the day is read
CloseTableSetTable(p) ==
    /\ req[p].op = "closeTable" /\ req[p].pc = "set_table"
    /\ LET r == req[p]
       IN  /\ kv' = [kv EXCEPT !.table =
                        kvSet(@, <<r.restaurantId, r.tableNumber>>, ClearOrders(r.table))]
           /\ req' = [req EXCEPT ![p] = [r EXCEPT !.pc = "get_sales", !.day = today]]
    /\ UNCHANGED <<minted, today, pre, run>>

HasSubtotal(r) == "subtotal" \in DOMAIN r

\* const { subtotal } = await c.req.json(): a body that cannot be read throws, and
\* the catch block answers 500
CloseTableAtBody(r, sales) ==
    IF HasSubtotal(r)
    THEN [r EXCEPT !.pc = "set_sales", !.sales = RecordSale(sales, r.subtotal)]
    ELSE Reply(r, 500, "Failed to close table")

\* let sales = await kv.get(salesKey); if (!sales) sales = {...}; the subtotal is
\* read from the body (await c.req.json(), no store access) and added
CloseTableGetSales(p) ==
    /\ req[p].op = "closeTable" /\ req[p].pc = "get_sales"
    /\ LET r == req[p]
           key == <<r.restaurantId, r.day>>
           sales == IF kvHas(kv.sales, key) THEN kv.sales[key] ELSE NoSales(r.day)
       IN  req' = [req EXCEPT ![p] = CloseTableAtBody(r, sales)]
    /\ UNCHANGED <<kv, minted, today, pre, run>>

\* await kv.set(salesKey, sales)
CloseTableSetSales(p) ==
    /\ req[p].op = "closeTable" /\ req[p].pc = "set_sales"
    /\ LET r == req[p]
       IN  /\ kv' = [kv EXCEPT !.sales = kvSet(@, <<r.restaurantId, r.day>>, r.sales)]
           /\ req' = [req EXCEPT ![p] = Reply(r, 200, "")]
           /\ run' = LogClose(r)
    /\ UNCHANGED <<minted, today, pre>>

\* new Date().toISOString().split('T')[0] yields the next day from now on
Midnight ==
    /\ today < MaxDays
    /\ today' = today + 1
    /\ UNCHANGED <<kv, req, minted, pre, run>>

----------------------------------------------------------------------------
(* GET /sales/:restaurantId                                                *)

ListSales(p, restaurantId) ==
    /\ req[p].pc = "idle"
    /\ LET r == [op |-> "listSales", pc |-> "done", res |-> NoRes,
                 restaurantId |-> restaurantId,
                 sales |-> kvGetByPrefix(kv.sales, restaurantId)]
       IN  req' = [req EXCEPT ![p] = Reply(r, 200, "")]
    /\ pre' = Snap
    /\ UNCHANGED <<kv, minted, today, run>>

----------------------------------------------------------------------------
(* POST /products                                                          *)

\* const product = { id, name, price, category, ingredients: ingredients || [] }
NewProduct(productId, body) ==
    [id |-> productId, name |-> body.name, price |-> body.price,
     category |-> body.category, ingredients |-> body.ingredients]

AddProduct(p, body) ==
    /\ req[p].pc = "idle"
    /\ minted.product < MaxProducts
    /\ LET productId == minted.product + 1
           r == [op |-> "addProduct", pc |-> "done", res |-> NoRes,
                 body |-> body, productId |-> productId]
       IN  /\ minted' = [minted EXCEPT !.product = productId]
           /\ kv' = [kv EXCEPT !.product =
                        kvSet(@, <<body.restaurantId, productId>>, NewProduct(productId, body))]
           /\ req' = [req EXCEPT ![p] = Reply(r, 200, "")]
    /\ pre' = Snap
    /\ run' = Taint
    /\ UNCHANGED today

----------------------------------------------------------------------------
(* DELETE /products/:productId, GET /products/:restaurantId and            *)
(* GET /inventory/:restaurantId                                            *)

DeleteProduct(p, restaurantId, productId) ==
    /\ req[p].pc = "idle"
    /\ LET r == [op |-> "deleteProduct", pc |-> "done", res |-> NoRes,
                 restaurantId |-> restaurantId, productId |-> productId]
       IN  /\ kv' = [kv EXCEPT !.product = kvDel(@, <<restaurantId, productId>>)]
           /\ req' = [req EXCEPT ![p] = Reply(r, 200, "")]
    /\ pre' = Snap
    /\ run' = Taint
    /\ UNCHANGED <<minted, today>>

GetProducts(p, restaurantId) ==
    /\ req[p].pc = "idle"
    /\ LET r == [op |-> "getProducts", pc |-> "done", res |-> NoRes,
                 restaurantId |-> restaurantId,
                 listed |-> kvGetByPrefix(kv.product, restaurantId)]
       IN  req' = [req EXCEPT ![p] = Reply(r, 200, "")]
    /\ pre' = Snap
    /\ UNCHANGED <<kv, minted, today, run>>

GetInventory(p, restaurantId) ==
    /\ req[p].pc = "idle"
    /\ LET r == [op |-> "getInventory", pc |-> "done", res |-> NoRes,
                 restaurantId |-> restaurantId,
                 listed |-> kvGetByPrefix(kv.inventory, restaurantId)]
       IN  req' = [req EXCEPT ![p] = Reply(r, 200, "")]
    /\ pre' = Snap
    /\ UNCHANGED <<kv, minted, today, run>>

----------------------------------------------------------------------------
(* POST /inventory                                                         *)

NewInventory_fixed(body) == [ingredient |-> body.ingredient, quantity |-> 0, unit |-> "un"]

\* current = { ingredient, quantity: 0, unit }
NewInventory(body) == [ingredient |-> body.ingredient, quantity |-> 0, unit |-> body.unit]

Restock_floor(current, quantity) ==
    [current EXCEPT !.quantity = IF @ + quantity < 0 THEN 0 ELSE @ + quantity]

\* current.quantity += quantity
Restock(current, quantity) == [current EXCEPT !.quantity = @ + quantity]

UpdateInventory(p, body) ==
    /\ req[p].pc = "idle"
    /\ LET key == <<body.restaurantId, body.ingredient>>
           current == IF kvHas(kv.inventory, key) THEN kv.inventory[key]
                      ELSE NewInventory(body)
           r == [op |-> "updateInventory", pc |-> "set_inventory", res |-> NoRes,
                 body |-> body, current |-> Restock(current, body.quantity)]
       IN  /\ r.current.quantity <= MaxStock
           /\ r.current.quantity >= -MaxStock
           /\ req' = [req EXCEPT ![p] = r]
    /\ pre' = Snap
    /\ run' = Taint
    /\ UNCHANGED <<kv, minted, today>>

UpdateInventorySet(p) ==
    /\ req[p].op = "updateInventory" /\ req[p].pc = "set_inventory"
    /\ LET r == req[p]
       IN  /\ kv' = [kv EXCEPT !.inventory =
                        kvSet(@, <<r.body.restaurantId, r.body.ingredient>>, r.current)]
           /\ req' = [req EXCEPT ![p] = Reply(r, 200, "")]
           /\ run' = LogStock(r)
    /\ UNCHANGED <<minted, today, pre>>

----------------------------------------------------------------------------
(* The registry specifications                                             *)

Emails == {"", "a@x", "b@x"}
Passwords == {"pw", "pw2"}
Names == {"Cantina"}
Tokens == {"", "PAID", "FREE"}

NoRun == NewRun(FALSE, FALSE)

InitReg(P, on) ==
    /\ kv = EmptyStore
    /\ req = [p \in P |-> Idle]
    /\ minted = [restaurant |-> 0, order |-> 0, product |-> 0]
    /\ today = 1
    /\ pre = [on |-> on, kv |-> EmptyStore, minted |-> minted]
    /\ run = NoRun

NextReg(P) ==
    \E p \in P :
        \/ \E e \in Emails, pw \in Passwords, n \in Names, t \in Tokens :
               Signup(p, e, pw, n, t)
        \/ SignupSetRestaurant(p)
        \/ SignupSetEmail(p)
        \/ SignupSetTable(p)
        \/ Return(p)

\* one request at a time
SpecReg == InitReg({1}, TRUE) /\ [][NextReg({1})]_vars

\* two requests in flight
SpecRegConc == InitReg({1, 2}, FALSE) /\ [][NextReg({1, 2})]_vars

----------------------------------------------------------------------------
(* The ledger specifications.  They start in the state SpecReg reaches when *)
(* restaurant 1 has signed up (SignedUpReachable is a state of SpecReg).    *)

SignedUpStore ==
    [EmptyStore EXCEPT
        !.restaurant = (1 :> NewRestaurant(1, "a@x", "pw", "Cantina")),
        !.email = ("a@x" :> 1),
        !.table = [k \in {<<1, n>> : n \in 1..NumTables} |-> NewTable(k[2])]]

SignedUpReachable == kv = SignedUpStore /\ Quiescent

InitLedger(P, on) ==
    /\ kv = SignedUpStore
    /\ req = [p \in P |-> Idle]
    /\ minted = [restaurant |-> 1, order |-> 0, product |-> 0]
    /\ today = 1
    /\ pre = [on |-> on, kv |-> SignedUpStore, minted |-> minted]
    /\ run = NewRun(on, FALSE)

Burger(q) ==
    [productId |-> 1, name |-> "burger", quantity |-> q, price |-> 12, category |-> "food"]

Cola(q) ==
    [productId |-> 2, name |-> "cola", quantity |-> q, price |-> 5, category |-> "drink"]

TableInputs == {1, 2}
ItemLists == {<<Burger(1)>>, <<Cola(2), Burger(1)>>}
OrderBodies ==
    {[restaurantId |-> 1, tableNumber |-> t, items |-> l] : t \in TableInputs, l \in ItemLists}
OrderIds == 1..MaxOrders
Subtotals == {10, 25}

\* no product is in the store, so the ingredient loop of POST /orders is never entered
NextLedger(P) ==
    \E p \in P :
        \/ \E b \in OrderBodies : PlaceOrder(p, b)
        \/ PlaceOrderGetTable(p)
        \/ PlaceOrderSetTable(p)
        \/ PlaceOrderGetProduct(p)
        \/ \E o \in OrderIds : MarkReady(p, 1, o)
        \/ MarkReadySetOrder(p)
        \/ \E o \in OrderIds : CompleteOrder(p, 1, o)
        \/ \E o \in OrderIds : UpdateItems(p, 1, o, 0, 0)
        \/ UpdateItemsSetOrder(p)
        \/ \E t \in TableInputs, s \in Subtotals : CloseTable(p, 1, t, s)
        \/ CloseTableDelOrder(p)
        \/ CloseTableSetTable(p)
        \/ CloseTableGetSales(p)
        \/ CloseTableSetSales(p)
        \/ Return(p)

\* one request at a time
SpecLedger == InitLedger({1}, TRUE) /\ [][NextLedger({1})]_vars

\* two requests in flight, on one table; the requests on an order name order 1
ConcOrderBodies == {[restaurantId |-> 1, tableNumber |-> 1, items |-> <<Burger(1)>>]}

NextLedgerConc(P) ==
    \E p \in P :
        \/ \E b \in ConcOrderBodies : PlaceOrder(p, b)
        \/ PlaceOrderGetTable(p)
        \/ PlaceOrderSetTable(p)
        \/ PlaceOrderGetProduct(p)
        \/ MarkReady(p, 1, 1)
        \/ MarkReadySetOrder(p)
        \/ CompleteOrder(p, 1, 1)
        \/ UpdateItems(p, 1, 1, 0, 3)
        \/ UpdateItemsSetOrder(p)
        \/ CloseTable(p, 1, 1, 10)
        \/ CloseTableDelOrder(p)
        \/ CloseTableSetTable(p)
        \/ CloseTableGetSales(p)
        \/ CloseTableSetSales(p)
        \/ Return(p)

SpecLedgerConc == InitLedger({1, 2}, FALSE) /\ [][NextLedgerConc({1, 2})]_vars

----------------------------------------------------------------------------
(* The inventory specification: products, stock and order placement        *)

Catalog ==
    {[restaurantId |-> 1, name |-> "burger", price |-> 12, category |-> "food",
      ingredients |-> <<[name |-> "bun", quantity |-> 1, unit |-> "un"],
                        [name |-> "beef", quantity |-> 2, unit |-> "g"]>>],
     [restaurantId |-> 1, name |-> "toast", price |-> 4, category |-> "food",
      ingredients |-> <<[name |-> "bun", quantity |-> 2, unit |-> "un"]>>],
     [restaurantId |-> 1, name |-> "cola", price |-> 5, category |-> "drink",
      ingredients |-> <<>>]}

Ingredients == {"bun", "beef"}

Restocks ==
    {[restaurantId |-> 1, ingredient |-> i, quantity |-> 4, unit |-> "un"] :
        i \in {"bun", "beef"}}

Dish(productId, q) ==
    [productId |-> productId, name |-> "dish", quantity |-> q, price |-> 12,
     category |-> "food"]

InvItemLists == {<<Dish(1, 2)>>, <<Dish(2, 1), Dish(1, 3)>>}
InvOrderBodies ==
    {[restaurantId |-> 1, tableNumber |-> 1, items |-> l] : l \in InvItemLists}

NextInv(P) ==
    \E p \in P :
        \/ \E b \in Catalog : AddProduct(p, b)
        \/ \E b \in Restocks : UpdateInventory(p, b)
        \/ UpdateInventorySet(p)
        \/ \E b \in InvOrderBodies : PlaceOrder(p, b)
        \/ PlaceOrderGetTable(p)
        \/ PlaceOrderSetTable(p)
        \/ PlaceOrderGetProduct(p)
        \/ PlaceOrderGetInventory(p)
        \/ PlaceOrderSetInventory(p)
        \/ Return(p)

SpecInv == InitLedger({1}, TRUE) /\ [][NextInv({1})]_vars

----------------------------------------------------------------------------
(* The line-item specification: one request at a time, orders of table 1   *)
(* are placed and their items edited at every kind of index.  It starts in *)
(* the state SpecInv reaches when the burger is in the catalog and four    *)
(* buns are in stock (StockedReachable is a state of SpecInv).             *)

BurgerProduct == CHOOSE b \in Catalog : b.name = "burger"
BunStock == CHOOSE b \in Restocks : b.ingredient = "bun"

StockedStore ==
    [SignedUpStore EXCEPT
        !.product = (<<1, 1>> :> NewProduct(1, BurgerProduct)),
        !.inventory = (<<1, "bun">> :> Restock(NewInventory(BunStock), BunStock.quantity))]

StockedReachable == kv = StockedStore /\ Quiescent

InitItems(P, on) ==
    /\ kv = StockedStore
    /\ req = [p \in P |-> Idle]
    /\ minted = [restaurant |-> 1, order |-> 0, product |-> 1]
    /\ today = 1
    /\ pre = [on |-> on, kv |-> StockedStore, minted |-> minted]
    /\ run = NewRun(on, FALSE)

\* positions before, inside and after the item array; a removal, an edit and a
\* negative quantity
ItemIndexes == {-1, 0, 1, 2}
Quantities == {-1, 0, 3}
EditItemLists == {<<Burger(1)>>, <<Cola(2), Burger(1)>>, <<Burger(0)>>}
EditOrderBodies ==
    {[restaurantId |-> 1, tableNumber |-> 1, items |-> l] : l \in EditItemLists}

NextItems(P) ==
    \E p \in P :
        \/ \E b \in EditOrderBodies : PlaceOrder(p, b)
        \/ PlaceOrderGetTable(p)
        \/ PlaceOrderSetTable(p)
        \/ PlaceOrderGetProduct(p)
        \/ PlaceOrderGetInventory(p)
        \/ PlaceOrderSetInventory(p)
        \/ \E o \in OrderIds, i \in ItemIndexes, q \in Quantities :
               UpdateItems(p, 1, o, i, q)
        \/ UpdateItemsSetOrder(p)
        \/ Return(p)

SpecItems == InitItems({1}, TRUE) /\ [][NextItems({1})]_vars

----------------------------------------------------------------------------
(* The floor specification: one request at a time; orders are placed for   *)
(* restaurant 1 and for an id that never signed up (POST /orders does not  *)
(* look the restaurant up), marked ready, completed and listed.            *)

RestaurantInputs == {1, 2}
FloorOrderBodies ==
    {[restaurantId |-> 1, tableNumber |-> 1, items |-> <<Cola(2)>>],
     [restaurantId |-> 1, tableNumber |-> 1, items |-> <<Cola(2), Burger(1)>>],
     [restaurantId |-> 2, tableNumber |-> 1, items |-> <<Burger(1)>>]}

\* table 1 exists for restaurant 1; table 0 and table 11 exist for no restaurant
CloseInputs == {0, 1, NumTables + 1}

NextFloor(P) ==
    \E p \in P :
        \/ \E b \in FloorOrderBodies : PlaceOrder(p, b)
        \/ PlaceOrderGetTable(p)
        \/ PlaceOrderSetTable(p)
        \/ PlaceOrderGetProduct(p)
        \/ \E rid \in RestaurantInputs, o \in OrderIds : MarkReady(p, rid, o)
        \/ MarkReadySetOrder(p)
        \/ \E rid \in RestaurantInputs, o \in OrderIds : CompleteOrder(p, rid, o)
        \/ \E rid \in RestaurantInputs : KitchenOrders(p, rid)
        \/ \E rid \in RestaurantInputs : TableOrders(p, rid, 1)
        \/ TableOrdersGetOrder(p)
        \/ \E rid \in RestaurantInputs, t \in CloseInputs : CloseTable(p, rid, t, 10)
        \/ CloseTableDelOrder(p)
        \/ CloseTableSetTable(p)
        \/ CloseTableGetSales(p)
        \/ CloseTableSetSales(p)
        \/ Return(p)

SpecFloor == InitLedger({1}, TRUE) /\ [][NextFloor({1})]_vars

----------------------------------------------------------------------------
(* The stock specification: POST /inventory calls, one at a time, with     *)
(* restocks and withdrawals on two ingredients                             *)

StockDeltas == {3, -2}
Units == {"un", "kg"}
StockBodies ==
    {[restaurantId |-> 1, ingredient |-> i, quantity |-> d, unit |-> u] :
        i \in Ingredients, d \in StockDeltas, u \in Units}

InitStock(P) ==
    /\ kv = SignedUpStore
    /\ req = [p \in P |-> Idle]
    /\ minted = [restaurant |-> 1, order |-> 0, product |-> 0]
    /\ today = 1
    /\ pre = [on |-> TRUE, kv |-> SignedUpStore, minted |-> minted]
    /\ run = NewRun(FALSE, TRUE)

NextStock(P) ==
    \E p \in P :
        \/ \E b \in StockBodies : UpdateInventory(p, b)
        \/ UpdateInventorySet(p)
        \/ Return(p)

SpecStock == InitStock({1}) /\ [][NextStock({1})]_vars

----------------------------------------------------------------------------
(* The delivery specification: orders are placed, one at a time, on table  *)
(* 1, on the cashier's delivery table 0 and on table 11, with the burger   *)
(* in the catalog and buns in stock                                        *)

\* submitDeliveryOrder: body { restaurantId, tableNumber: 0, items }
DeliveryOrder(restaurantId, items) ==
    [restaurantId |-> restaurantId, tableNumber |-> 0, items |-> items]

DeliveryItemLists == {<<Burger(1)>>, <<Cola(2), Burger(2)>>}
DeliveryOrderBodies ==
    {DeliveryOrder(1, l) : l \in DeliveryItemLists}
        \cup {[restaurantId |-> 1, tableNumber |-> t, items |-> l] :
                 t \in {1, NumTables + 1}, l \in DeliveryItemLists}

NextDelivery(P) ==
    \E p \in P :
        \/ \E b \in DeliveryOrderBodies : PlaceOrder(p, b)
        \/ PlaceOrderGetTable(p)
        \/ PlaceOrderSetTable(p)
        \/ PlaceOrderGetProduct(p)
        \/ PlaceOrderGetInventory(p)
        \/ PlaceOrderSetInventory(p)
        \/ Return(p)

SpecDelivery == InitItems({1}, TRUE) /\ [][NextDelivery({1})]_vars

----------------------------------------------------------------------------
(* The account specification: signups, logins and the manager password,    *)
(* one request at a time                                                   *)

LoginEmails == {"", "a@x", "b@x"}
LoginPasswords == {"", "pw", "pw2"}
ManagerPasswords == {"", "m1", "m2"}
RestaurantIds == 1..(MaxRestaurants + 1)

InitAccounts(P) ==
    /\ kv = EmptyStore
    /\ req = [p \in P |-> Idle]
    /\ minted = [restaurant |-> 0, order |-> 0, product |-> 0]
    /\ today = 1
    /\ pre = [on |-> TRUE, kv |-> EmptyStore, minted |-> minted]
    /\ run = NewRun(FALSE, TRUE)

NextAccounts(P) ==
    \E p \in P :
        \/ \E e \in {"a@x", "b@x"}, pw \in Passwords : Signup(p, e, pw, "Cantina", PaidToken)
        \/ SignupSetRestaurant(p)
        \/ SignupSetEmail(p)
        \/ SignupSetTable(p)
        \/ \E e \in LoginEmails, pw \in LoginPasswords : Login(p, e, pw)
        \/ LoginGetRestaurant(p)
        \/ \E rid \in RestaurantIds, pw \in ManagerPasswords : SetManagerPassword(p, rid, pw)
        \/ SetManagerPasswordSet(p)
        \/ \E rid \in RestaurantIds, pw \in ManagerPasswords : VerifyManager(p, rid, pw)
        \/ Return(p)

SpecAccounts == InitAccounts({1}) /\ [][NextAccounts({1})]_vars

----------------------------------------------------------------------------
(* The sales specification: tables are closed, with and without orders,    *)
(* one request at a time, over several days                                *)

NextSales(P) ==
    \/ Midnight
    \/ \E p \in P :
        \/ PlaceOrder(p, [restaurantId |-> 1, tableNumber |-> 1, items |-> <<Burger(1)>>])
        \/ PlaceOrderGetTable(p)
        \/ PlaceOrderSetTable(p)
        \/ PlaceOrderGetProduct(p)
        \/ \E rid \in RestaurantInputs, t \in {1, 2} : CloseTable(p, rid, t, 10)
        \/ CloseTableDelOrder(p)
        \/ CloseTableSetTable(p)
        \/ CloseTableGetSales(p)
        \/ CloseTableSetSales(p)
        \/ \E rid \in RestaurantInputs : ListSales(p, rid)
        \/ Return(p)

SpecSales == InitStock({1}) /\ [][NextSales({1})]_vars

----------------------------------------------------------------------------
(* The partial-failure specification: orders are posted one at a time,     *)
(* some with a body that has no items, so that the handler throws when it  *)
(* reaches the inventory loop                                              *)

PartialOrderBodies ==
    {[restaurantId |-> 1, tableNumber |-> t] : t \in {0, 1}}
        \cup {[restaurantId |-> 1, tableNumber |-> 1, items |-> l] : l \in ItemLists}

NextPartial(P) ==
    \E p \in P :
        \/ \E b \in PartialOrderBodies : PlaceOrder(p, b)
        \/ PlaceOrderGetTable(p)
        \/ PlaceOrderSetTable(p)
        \/ PlaceOrderGetProduct(p)
        \/ PlaceOrderGetInventory(p)
        \/ PlaceOrderSetInventory(p)
        \/ \E t \in {0, 1} : TableOrders(p, 1, t)
        \/ TableOrdersGetOrder(p)
        \/ KitchenOrders(p, 1)
        \/ Return(p)

SpecPartial == InitItems({1}, TRUE) /\ [][NextPartial({1})]_vars

----------------------------------------------------------------------------
(* The tenants specification.  Two restaurants have signed up              *)
(* (TwoSignedUpReachable is a state of SpecReg).  Restaurant 2 has then    *)
(* added the burger, stocked four buns, closed its empty table 2, set its  *)
(* manager password and placed a burger order on its table 1               *)
(* (TenantReachable is a state of SpecTenantSetup).  From there every      *)
(* handler is called, one request at a time, in the name of restaurant 1,  *)
(* also with the order and product ids that belong to restaurant 2.        *)

TwoSignedUpStore ==
    [EmptyStore EXCEPT
        !.restaurant = (1 :> NewRestaurant(1, "a@x", "pw", "Cantina")
                        @@ 2 :> NewRestaurant(2, "b@x", "pw2", "Cantina")),
        !.email = ("a@x" :> 1 @@ "b@x" :> 2),
        !.table = [k \in {<<rid, n>> : rid \in {1, 2}, n \in 1..NumTables} |->
                      NewTable(k[2])]]

TwoSignedUpReachable == kv = TwoSignedUpStore /\ Quiescent

TenantOrder == [restaurantId |-> 2, tableNumber |-> 1, items |-> <<Burger(1)>>]
TenantProduct == [BurgerProduct EXCEPT !.restaurantId = 2]
TenantStock == [BunStock EXCEPT !.restaurantId = 2]

InitTenantSetup(P) ==
    /\ kv = TwoSignedUpStore
    /\ req = [p \in P |-> Idle]
    /\ minted = [restaurant |-> 2, order |-> 0, product |-> 0]
    /\ today = 1
    /\ pre = [on |-> TRUE, kv |-> TwoSignedUpStore, minted |-> minted]
    /\ run = NewRun(FALSE, FALSE)

NextTenantSetup(P) ==
    \E p \in P :
        \/ AddProduct(p, TenantProduct)
        \/ UpdateInventory(p, TenantStock)
        \/ UpdateInventorySet(p)
        \/ CloseTable(p, 2, 2, 10)
        \/ CloseTableSetTable(p)
        \/ CloseTableGetSales(p)
        \/ CloseTableSetSales(p)
        \/ SetManagerPassword(p, 2, "m2")
        \/ SetManagerPasswordSet(p)
        \/ PlaceOrder(p, TenantOrder)
        \/ PlaceOrderGetTable(p)
        \/ PlaceOrderSetTable(p)
        \/ PlaceOrderGetProduct(p)
        \/ PlaceOrderGetInventory(p)
        \/ PlaceOrderSetInventory(p)
        \/ Return(p)

SpecTenantSetup == InitTenantSetup({1}) /\ [][NextTenantSetup({1})]_vars

TenantStore ==
    [TwoSignedUpStore EXCEPT
        !.restaurant[2] = SetManager(@, "m2"),
        !.table[<<2, 1>>] = LinkOrder(@, 1),
        !.order = (<<2, 1>> :> NewOrder(1, TenantOrder)),
        !.product = (<<2, 1>> :> NewProduct(1, TenantProduct)),
        !.inventory = (<<2, "bun">> :>
                          Deduct(Restock(NewInventory(TenantStock), TenantStock.quantity),
                                 TenantProduct.ingredients[1], Burger(1))),
        !.sales = (<<2, 1>> :> RecordSale(NoSales(1), 10))]

TenantReachable ==
    /\ kv = TenantStore
    /\ minted = [restaurant |-> 2, order |-> 1, product |-> 1]
    /\ Quiescent

InitTenants(P) ==
    /\ kv = TenantStore
    /\ req = [p \in P |-> Idle]
    /\ minted = [restaurant |-> 2, order |-> 1, product |-> 1]
    /\ today = 1
    /\ pre = [on |-> TRUE, kv |-> TenantStore, minted |-> minted]
    /\ run = NewRun(FALSE, FALSE)

ProductIds == 1..MaxProducts

\* product 1 is restaurant 2's burger; product 2 is the one restaurant 1 adds
TenantItemLists == {<<Burger(1)>>, <<Dish(2, 1)>>}

NextTenants(P) ==
    \E p \in P :
        \/ \E items \in TenantItemLists :
               PlaceOrder(p, [restaurantId |-> 1, tableNumber |-> 1, items |-> items])
        \/ PlaceOrderGetTable(p)
        \/ PlaceOrderSetTable(p)
        \/ PlaceOrderGetProduct(p)
        \/ PlaceOrderGetInventory(p)
        \/ PlaceOrderSetInventory(p)
        \/ \E o \in OrderIds : MarkReady(p, 1, o)
        \/ MarkReadySetOrder(p)
        \/ \E o \in OrderIds : CompleteOrder(p, 1, o)
        \/ \E o \in OrderIds : UpdateItems(p, 1, o, 0, 3)
        \/ UpdateItemsSetOrder(p)
        \/ CloseTable(p, 1, 1, 10)
        \/ CloseTableDelOrder(p)
        \/ CloseTableSetTable(p)
        \/ CloseTableGetSales(p)
        \/ CloseTableSetSales(p)
        \/ AddProduct(p, BurgerProduct)
        \/ \E i \in ProductIds : DeleteProduct(p, 1, i)
        \/ UpdateInventory(p, BunStock)
        \/ UpdateInventorySet(p)
        \/ SetManagerPassword(p, 1, "m1")
        \/ SetManagerPasswordSet(p)
        \/ GetTables(p, 1)
        \/ KitchenOrders(p, 1)
        \/ TableOrders(p, 1, 1)
        \/ TableOrdersGetOrder(p)
        \/ GetProducts(p, 1)
        \/ GetInventory(p, 1)
        \/ ListSales(p, 1)
        \/ Return(p)

SpecTenants == InitTenants({1}) /\ [][NextTenants({1})]_vars

----------------------------------------------------------------------------
(* The concurrent placement specification: two POST /orders requests for   *)
(* table 1 are in flight, with the burger in the catalog and buns in stock *)

PlaceConcBodies ==
    {[restaurantId |-> 1, tableNumber |-> 1, items |-> <<Burger(q)>>] : q \in {1, 2}}

NextPlaceConc(P) ==
    \E p \in P :
        \/ \E b \in PlaceConcBodies : PlaceOrder(p, b)
        \/ PlaceOrderGetTable(p)
        \/ PlaceOrderSetTable(p)
        \/ PlaceOrderGetProduct(p)
        \/ PlaceOrderGetInventory(p)
        \/ PlaceOrderSetInventory(p)
        \/ Return(p)

SpecPlaceConc == InitItems({1, 2}, FALSE) /\ [][NextPlaceConc({1, 2})]_vars

----------------------------------------------------------------------------
(* The concurrent closing specification: two POST /tables/.../close        *)
(* requests of restaurant 1 are in flight on the same day                  *)

InitCloseConc(P) ==
    /\ kv = SignedUpStore
    /\ req = [p \in P |-> Idle]
    /\ minted = [restaurant |-> 1, order |-> 0, product |-> 0]
    /\ today = 1
    /\ pre = [on |-> FALSE, kv |-> SignedUpStore, minted |-> minted]
    /\ run = NewRun(FALSE, TRUE)

NextCloseConc(P) ==
    \E p \in P :
        \/ \E t \in TableInputs, sub \in Subtotals : CloseTable(p, 1, t, sub)
        \/ CloseTableSetTable(p)
        \/ CloseTableGetSales(p)
        \/ CloseTableSetSales(p)
        \/ Return(p)

SpecCloseConc == InitCloseConc({1, 2}) /\ [][NextCloseConc({1, 2})]_vars

----------------------------------------------------------------------------
(* The closing-while-ordering specification: slot 1 is the waiter placing   *)
(* orders on table 1, slot 2 the cashier closing table 1; the two requests  *)
(* may be in flight together                                               *)

NextCloseVsPlace ==
    \/ PlaceOrder(1, [restaurantId |-> 1, tableNumber |-> 1, items |-> <<Burger(1)>>])
    \/ PlaceOrderGetTable(1)
    \/ PlaceOrderSetTable(1)
    \/ PlaceOrderGetProduct(1)
    \/ \E sub \in Subtotals : CloseTable(2, 1, 1, sub)
    \/ CloseTableDelOrder(2)
    \/ CloseTableSetTable(2)
    \/ CloseTableGetSales(2)
    \/ CloseTableSetSales(2)
    \/ \E p \in {1, 2} : Return(p)

SpecCloseVsPlace == InitLedger({1, 2}, FALSE) /\ [][NextCloseVsPlace]_vars

----------------------------------------------------------------------------
(* The failing-close specification: requests run one at a time; a close    *)
(* may name a table that does not exist or carry a body that is not JSON   *)

NextCloseFail(P) ==
    \E p \in P :
        \/ \E t \in TableInputs :
               PlaceOrder(p, [restaurantId |-> 1, tableNumber |-> t, items |-> <<Burger(1)>>])
        \/ PlaceOrderGetTable(p)
        \/ PlaceOrderSetTable(p)
        \/ PlaceOrderGetProduct(p)
        \/ \E t \in CloseInputs, sub \in Subtotals : CloseTable(p, 1, t, sub)
        \/ \E t \in CloseInputs : CloseTableUnreadable(p, 1, t)
        \/ CloseTableDelOrder(p)
        \/ CloseTableSetTable(p)
        \/ CloseTableGetSales(p)
        \/ CloseTableSetSales(p)
        \/ Return(p)

SpecCloseFail == InitLedger({1}, TRUE) /\ [][NextCloseFail({1})]_vars

----------------------------------------------------------------------------
(* The delivery floor specification: delivery orders (table 0) and orders  *)
(* of table 1 are placed, listed, marked ready, completed and closed, one  *)
(* request at a time                                                       *)

DeliveryFloorBodies ==
    {DeliveryOrder(1, <<Burger(1)>>),
     [restaurantId |-> 1, tableNumber |-> 1, items |-> <<Burger(1)>>]}

NextDeliveryFloor(P) ==
    \E p \in P :
        \/ \E b \in DeliveryFloorBodies : PlaceOrder(p, b)
        \/ PlaceOrderGetTable(p)
        \/ PlaceOrderSetTable(p)
        \/ PlaceOrderGetProduct(p)
        \/ \E o \in OrderIds : MarkReady(p, 1, o)
        \/ MarkReadySetOrder(p)
        \/ \E o \in OrderIds : CompleteOrder(p, 1, o)
        \/ \E t \in {0, 1} : TableOrders(p, 1, t)
        \/ TableOrdersGetOrder(p)
        \/ \E t \in {0, 1} : CloseTable(p, 1, t, 10)
        \/ CloseTableDelOrder(p)
        \/ CloseTableSetTable(p)
        \/ CloseTableGetSales(p)
        \/ CloseTableSetSales(p)
        \/ Return(p)

SpecDeliveryFloor == InitLedger({1}, TRUE) /\ [][NextDeliveryFloor({1})]_vars

----------------------------------------------------------------------------
(* src/src/components/CashierView.tsx: the cashier's screen.  The screen is *)
(* a process of its own: slot v of req holds its React state, and slot p   *)
(* the request it has sent to the server.  Of the ten tables the screen    *)
(* polls, table 1 is followed.                                             *)

\* useState: tables = {}, readyOrders = [], selectedTable = null,
\* showCheckoutDialog = false   (selectedTable 0 stands for null)
CashierView ==
    [op |-> "cashierView", pc |-> "screen", res |-> NoRes,
     tables |-> EmptyMap, readyOrders |-> {}, selectedTable |-> 0,
     showCheckoutDialog |-> FALSE]

\* const orders = tables[tableNumber] || []
PolledOrders(tables, tableNumber) ==
    IF kvHas(tables, tableNumber) THEN tables[tableNumber] ELSE <<>>

\* order.items.reduce((itemSum, item) => itemSum + (item.price * item.quantity), 0)
OrderTotal(order) ==
    SumSeq([n \in 1..Len(order.items) |-> order.items[n].price * order.items[n].quantity])

\* orders.reduce((sum, order) => sum + order.items.reduce(...), 0)
GetTableTotal(tables, tableNumber) ==
    LET orders == PolledOrders(tables, tableNumber)
    IN  SumSeq([n \in 1..Len(orders) |-> OrderTotal(orders[n])])

\* loadTables: the orders of the table are requested
CashierLoadTables(p, v, restaurantId, tableNumber) ==
    /\ req[v].op = "cashierView"
    /\ TableOrders(p, restaurantId, tableNumber)

\* tableOrders[table.number] = ordersData.orders || []; setTables(tableOrders)
CashierSetTables(p, v) ==
    /\ req[v].op = "cashierView"
    /\ req[p].op = "tableOrders" /\ req[p].pc = "done"
    /\ req' = [req EXCEPT ![p] = Idle,
                          ![v].tables = kvSet(@, req[p].tableNumber, req[p].orders)]
    /\ pre' = Snap
    /\ UNCHANGED <<kv, minted, today, run>>

\* loadReadyOrders: the kitchen's list is requested
CashierLoadReadyOrders(p, v, restaurantId) ==
    /\ req[v].op = "cashierView"
    /\ KitchenOrders(p, restaurantId)

KeepReady_pending(orders) == {o \in orders : o.status = "pending"}

\* (data.orders || []).filter((o: Order) => o.status === 'ready')
KeepReady(orders) == {o \in orders : o.status = "ready"}

\* setReadyOrders(...); a failed request carries no orders
CashierSetReadyOrders(p, v) ==
    /\ req[v].op = "cashierView"
    /\ req[p].op = "kitchenOrders" /\ req[p].pc = "done"
    /\ req' = [req EXCEPT ![p] = Idle, ![v].readyOrders = KeepReady(req[p].orders)]
    /\ pre' = Snap
    /\ UNCHANGED <<kv, minted, today, run>>

\* {readyOrders.length > 0 && ...}: the Concluir button, which calls
\* completeReadyOrder, is on the screen
CompleteReadyOrderShown(v) == req[v].readyOrders # {}

\* the Fechar Mesa button of a table that shows orders: handleCheckout
HandleCheckout(v, tableNumber) ==
    /\ req[v].op = "cashierView"
    /\ ~req[v].showCheckoutDialog
    /\ Len(PolledOrders(req[v].tables, tableNumber)) > 0
    /\ req' = [req EXCEPT ![v].selectedTable = tableNumber,
                          ![v].showCheckoutDialog = TRUE]
    /\ UNCHANGED <<kv, minted, today, pre, run>>

\* Dar Baixa: closeTable(selectedTable, getTableTotal(selectedTable))
CashierCloseTable(p, v, restaurantId) ==
    /\ req[v].op = "cashierView"
    /\ req[v].showCheckoutDialog /\ req[v].selectedTable # 0
    /\ CloseTable(p, restaurantId, req[v].selectedTable,
                  GetTableTotal(req[v].tables, req[v].selectedTable))

\* the fetch has resolved: setShowCheckoutDialog(false); setSelectedTable(null)
CashierClosed(p, v) ==
    /\ req[v].op = "cashierView"
    /\ req[p].op = "closeTable" /\ req[p].pc = "done"
    /\ req' = [req EXCEPT ![p] = Idle, ![v].selectedTable = 0,
                          ![v].showCheckoutDialog = FALSE]
    /\ pre' = Snap
    /\ UNCHANGED <<kv, minted, today, run>>

----------------------------------------------------------------------------
(* The cashier specifications: slot 1 carries the requests of the waiter   *)
(* and the kitchen on table 1, slot 2 the requests of the cashier's        *)
(* screen, slot 3 the screen.  SpecCashier follows the bill of table 1,    *)
(* SpecCashierReady the list of ready orders.                              *)

InitCashier ==
    /\ kv = SignedUpStore
    /\ req = [p \in {1, 2, 3} |-> IF p = 3 THEN CashierView ELSE Idle]
    /\ minted = [restaurant |-> 1, order |-> 0, product |-> 0]
    /\ today = 1
    /\ pre = [on |-> FALSE, kv |-> SignedUpStore, minted |-> minted]
    /\ run = NewRun(FALSE, FALSE)

NextCashier ==
    \/ PlaceOrder(1, [restaurantId |-> 1, tableNumber |-> 1, items |-> <<Burger(1)>>])
    \/ PlaceOrderGetTable(1)
    \/ PlaceOrderSetTable(1)
    \/ PlaceOrderGetProduct(1)
    \/ \E o \in OrderIds : CompleteOrder(1, 1, o)
    \/ Return(1)
    \/ CashierLoadTables(2, 3, 1, 1)
    \/ TableOrdersGetOrder(2)
    \/ CashierSetTables(2, 3)
    \/ HandleCheckout(3, 1)
    \/ CashierCloseTable(2, 3, 1)
    \/ CloseTableDelOrder(2)
    \/ CloseTableSetTable(2)
    \/ CloseTableGetSales(2)
    \/ CloseTableSetSales(2)
    \/ CashierClosed(2, 3)

SpecCashier == InitCashier /\ [][NextCashier]_vars

NextCashierReady ==
    \/ \E items \in ItemLists :
           PlaceOrder(1, [restaurantId |-> 1, tableNumber |-> 1, items |-> items])
    \/ PlaceOrderGetTable(1)
    \/ PlaceOrderSetTable(1)
    \/ PlaceOrderGetProduct(1)
    \/ \E o \in OrderIds : MarkReady(1, 1, o)
    \/ MarkReadySetOrder(1)
    \/ Return(1)
    \/ CashierLoadReadyOrders(2, 3, 1)
    \/ CashierSetReadyOrders(2, 3)

SpecCashierReady == InitCashier /\ [][NextCashierReady]_vars

----------------------------------------------------------------------------
(* src/src/App.tsx and src/src/components/RoleSelection.tsx: the screens.  *)
(* Slot v of req holds the React state of App and of the RoleSelection it  *)
(* renders; slot p holds the verify-manager request and slot q the         *)
(* set-manager-password request RoleSelection has sent.  restaurantId 0    *)
(* stands for the empty string.                                            *)

\* RoleSelection's useState: both dialogs closed, both inputs '', error '',
\* loading false; awaiting names the requests this mounted instance waits for
RoleSelectionState(a) ==
    [a EXCEPT !.showManagerDialog = FALSE, !.showSetPasswordDialog = FALSE,
              !.managerPassword = "", !.newPassword = "", !.error = "",
              !.loading = FALSE, !.awaiting = {}]

\* App's useState: screen 'login', restaurantId ''
App ==
    [op |-> "app", pc |-> "screen", res |-> NoRes,
     screen |-> "login", restaurantId |-> 0,
     showManagerDialog |-> FALSE, showSetPasswordDialog |-> FALSE,
     managerPassword |-> "", newPassword |-> "", error |-> "",
     loading |-> FALSE, awaiting |-> {}]

\* setScreen(screen): RoleSelection is mounted afresh on 'role-selection' and
\* unmounted on every other screen
SetScreen(a, screen) ==
    IF a.screen = "role-selection" /\ screen = "role-selection"
    THEN a ELSE RoleSelectionState([a EXCEPT !.screen = screen])

\* the page behind the dialogs takes clicks while no dialog is open
PageShown(a) ==
    a.screen = "role-selection" /\ ~a.showManagerDialog /\ ~a.showSetPasswordDialog

\* handleLogin(id, name), called by the login screen with a restaurant's id
HandleLogin(v, id) ==
    /\ req[v].op = "app" /\ req[v].screen = "login"
    /\ req' = [req EXCEPT ![v] = SetScreen([@ EXCEPT !.restaurantId = id], "role-selection")]
    /\ UNCHANGED <<kv, minted, today, pre, run>>

\* handleLogout: the Sair button of RoleSelection
HandleLogout(v) ==
    /\ req[v].op = "app" /\ PageShown(req[v])
    /\ req' = [req EXCEPT ![v] = SetScreen([@ EXCEPT !.restaurantId = 0], "login")]
    /\ UNCHANGED <<kv, minted, today, pre, run>>

\* a role card other than the manager's: onSelectRole(role.id)
SelectRole(v, role) ==
    /\ req[v].op = "app" /\ PageShown(req[v])
    /\ req' = [req EXCEPT ![v] = SetScreen(@, role)]
    /\ UNCHANGED <<kv, minted, today, pre, run>>

\* the manager's card: handleManagerClick
HandleManagerClick(v) ==
    /\ req[v].op = "app" /\ PageShown(req[v])
    /\ req' = [req EXCEPT ![v].showManagerDialog = TRUE, ![v].error = ""]
    /\ UNCHANGED <<kv, minted, today, pre, run>>

\* onBack of the waiter's, cashier's, kitchen's and manager's views
OnBack(v) ==
    /\ req[v].op = "app"
    /\ req[v].screen \in {"waiter", "cashier", "kitchen", "manager"}
    /\ req' = [req EXCEPT ![v] = SetScreen(@, "role-selection")]
    /\ UNCHANGED <<kv, minted, today, pre, run>>

\* onOpenChange(false) of either dialog
CloseDialog(v) ==
    /\ req[v].op = "app"
    /\ req[v].showManagerDialog \/ req[v].showSetPasswordDialog
    /\ req' = [req EXCEPT ![v].showManagerDialog = FALSE,
                          ![v].showSetPasswordDialog = FALSE]
    /\ UNCHANGED <<kv, minted, today, pre, run>>

\* the Definir Senha button of the manager dialog
OpenSetPassword(v) ==
    /\ req[v].op = "app" /\ req[v].showManagerDialog
    /\ req' = [req EXCEPT ![v].showManagerDialog = FALSE,
                          ![v].showSetPasswordDialog = TRUE]
    /\ UNCHANGED <<kv, minted, today, pre, run>>

\* onChange of the two password inputs
TypePassword(v, password) ==
    /\ req[v].op = "app"
    /\ \/ /\ req[v].showManagerDialog
          /\ req' = [req EXCEPT ![v].managerPassword = password]
       \/ /\ req[v].showSetPasswordDialog
          /\ req' = [req EXCEPT ![v].newPassword = password]
    /\ UNCHANGED <<kv, minted, today, pre, run>>

\* handleVerifyManager up to its await: the request leaves with the restaurantId
\* prop and the typed password
HandleVerifyManager(p, v) ==
    /\ req[v].op = "app" /\ req[v].showManagerDialog
    /\ req[p].pc = "idle"
    /\ req' = [req EXCEPT
                  ![p] = VerifyManagerReply(kv, req[v].restaurantId, req[v].managerPassword),
                  ![v] = [@ EXCEPT !.error = "", !.loading = TRUE,
                                   !.awaiting = @ \cup {"verifyManager"}]]
    /\ pre' = Snap
    /\ UNCHANGED <<kv, minted, today, run>>

\* the instance that sent the request is still mounted: its setError and
\* setLoading take effect
Settle(a, op, error) ==
    IF op \in a.awaiting
    THEN [a EXCEPT !.error = IF error = "" THEN @ ELSE error, !.loading = FALSE,
                   !.awaiting = @ \ {op}]
    ELSE a

\* handleVerifyManager from its await on: onSelectRole('manager') when the response
\* is ok, setError otherwise; setLoading(false) in either case
VerifyManagerResolved(a, response) ==
    IF response.res.status = 200
    THEN SetScreen(Settle(a, "verifyManager", ""), "manager")
    ELSE Settle(a, "verifyManager",
                IF response.res.status = 401 THEN "Senha incorreta" ELSE response.res.error)

HandleVerifyManagerResolved(p, v) ==
    /\ req[v].op = "app"
    /\ req[p].op = "verifyManager" /\ req[p].pc = "done"
    /\ req' = [req EXCEPT ![p] = Idle, ![v] = VerifyManagerResolved(@, req[p])]
    /\ pre' = Snap
    /\ UNCHANGED <<kv, minted, today, run>>

\* handleSetPassword up to its await; without a new password only the error is set
HandleSetPassword(q, v) ==
    /\ req[v].op = "app" /\ req[v].showSetPasswordDialog
    /\ IF req[v].newPassword = ""
       THEN /\ req' = [req EXCEPT ![v].error = "Digite uma senha"]
            /\ UNCHANGED <<pre, run>>
       ELSE /\ req[q].pc = "idle"
            /\ req' = [req EXCEPT
                          ![q] = SetManagerPasswordAt(kv, req[v].restaurantId,
                                                      req[v].newPassword),
                          ![v] = [@ EXCEPT !.loading = TRUE,
                                           !.awaiting = @ \cup {"setManagerPassword"}]]
            /\ pre' = Snap
            /\ run' = Taint
    /\ UNCHANGED <<kv, minted, today>>

\* handleSetPassword from its await on: the manager dialog replaces the
\* set-password dialog when the response is ok
SetPasswordResolved(a, response) ==
    IF "setManagerPassword" \notin a.awaiting THEN a
    ELSE IF response.res.status = 200
    THEN [Settle(a, "setManagerPassword", "") EXCEPT
             !.showSetPasswordDialog = FALSE, !.showManagerDialog = TRUE]
    ELSE Settle(a, "setManagerPassword", "Falha ao definir senha")

HandleSetPasswordResolved(q, v) ==
    /\ req[v].op = "app"
    /\ req[q].op = "setManagerPassword" /\ req[q].pc = "done"
    /\ req' = [req EXCEPT ![q] = Idle, ![v] = SetPasswordResolved(@, req[q])]
    /\ pre' = Snap
    /\ UNCHANGED <<kv, minted, today, run>>

----------------------------------------------------------------------------
(* The screens specification: two restaurants have signed up, restaurant 1 *)
(* has the manager password m1; slot 1 is the verify-manager request,      *)
(* slot 2 the set-manager-password request, slot 3 the application         *)

AppStore == [TwoSignedUpStore EXCEPT !.restaurant[1] = SetManager(@, "m1")]

AppStoreReachable == kv = AppStore /\ Quiescent

InitApp ==
    /\ kv = AppStore
    /\ req = [p \in {1, 2, 3} |-> IF p = 3 THEN App ELSE Idle]
    /\ minted = [restaurant |-> 2, order |-> 0, product |-> 0]
    /\ today = 1
    /\ pre = [on |-> FALSE, kv |-> AppStore, minted |-> minted]
    /\ run = NewRun(FALSE, FALSE)

Roles == {"waiter", "cashier", "kitchen"}
TypedPasswords == {"", "m1"}

NextApp ==
    \/ \E id \in {1, 2} : HandleLogin(3, id)
    \/ HandleLogout(3)
    \/ \E role \in Roles : SelectRole(3, role)
    \/ HandleManagerClick(3)
    \/ OnBack(3)
    \/ CloseDialog(3)
    \/ OpenSetPassword(3)
    \/ \E pw \in TypedPasswords : TypePassword(3, pw)
    \/ HandleVerifyManager(1, 3)
    \/ HandleVerifyManagerResolved(1, 3)
    \/ HandleSetPassword(2, 3)
    \/ SetManagerPasswordSet(2)
    \/ HandleSetPasswordResolved(2, 3)

SpecApp == InitApp /\ [][NextApp]_vars

----------------------------------------------------------------------------
(* src/unnamed/part_002: the waiter's screen (WaiterView).  Slot v of req  *)
(* holds its React state, slot p the request it has sent.  selectedTable 0 *)
(* stands for null; alert is the text of the last alert shown.             *)

\* useState: selectedTable = null, products = [], cart = [], loading = false;
\* the effect that loads the products has not run yet
WaiterView ==
    [op |-> "waiterView", pc |-> "mounting", res |-> NoRes,
     selectedTable |-> 0, products |-> {}, cart |-> <<>>, loading |-> FALSE,
     alert |-> ""]

\* cart.find(item => item.product.id === productId) finds an entry
InCart(cart, productId) == \E n \in 1..Len(cart) : cart[n].product.id = productId

\* the entry cart.find returns: the first one of the product
Existing(cart, productId) ==
    cart[CHOOSE n \in 1..Len(cart) :
             /\ cart[n].product.id = productId
             /\ \A m \in 1..(n - 1) : cart[m].product.id # productId]

\* an addToCart that appends an entry whether or not the product has one
AddToCart_append(cart, product) == Append(cart, [product |-> product, quantity |-> 1])

\* addToCart: the entry of the product gains one, or a new entry of quantity 1 is
\* appended
AddToCart(cart, product) ==
    IF InCart(cart, product.id)
    THEN [n \in 1..Len(cart) |->
             IF cart[n].product.id = product.id
             THEN [cart[n] EXCEPT !.quantity = @ + 1] ELSE cart[n]]
    ELSE Append(cart, [product |-> product, quantity |-> 1])

\* removeFromCart: the entry of the product loses one, or is filtered out
RemoveFromCart(cart, productId) ==
    IF InCart(cart, productId) /\ Existing(cart, productId).quantity > 1
    THEN [n \in 1..Len(cart) |->
             IF cart[n].product.id = productId
             THEN [cart[n] EXCEPT !.quantity = @ - 1] ELSE cart[n]]
    ELSE SelectSeq(cart, LAMBDA item : item.product.id # productId)

\* const items = cart.map(item => ({ productId, name, quantity, price, category }))
CartItems(cart) ==
    [n \in 1..Len(cart) |->
        [productId |-> cart[n].product.id, name |-> cart[n].product.name,
         quantity |-> cart[n].quantity, price |-> cart[n].product.price,
         category |-> cart[n].product.category]]

\* useEffect(() => { loadProducts() }, []): the products are requested once
WaiterLoadProducts(p, v, restaurantId) ==
    /\ req[v].op = "waiterView" /\ req[v].pc = "mounting"
    /\ GetProducts(p, restaurantId)

\* setProducts(data.products || [])
WaiterSetProducts(p, v) ==
    /\ req[v].op = "waiterView"
    /\ req[p].op = "getProducts" /\ req[p].pc = "done"
    /\ req' = [req EXCEPT ![p] = Idle, ![v].products = req[p].listed,
                          ![v].pc = "screen"]
    /\ pre' = Snap
    /\ UNCHANGED <<kv, minted, today, run>>

\* a table button: setSelectedTable(tableNumber)
SelectTable(v, tableNumber) ==
    /\ req[v].op = "waiterView"
    /\ req' = [req EXCEPT ![v].selectedTable = tableNumber]
    /\ UNCHANGED <<kv, minted, today, pre, run>>

\* the + button of a product (shown while a table is selected) or of a cart entry
WaiterAddToCart(v, product) ==
    /\ req[v].op = "waiterView"
    /\ \/ req[v].selectedTable # 0 /\ product \in req[v].products
       \/ \E n \in 1..Len(req[v].cart) : req[v].cart[n].product = product
    /\ \A n \in 1..Len(req[v].cart) :
           req[v].cart[n].product.id = product.id => req[v].cart[n].quantity < MaxCart
    /\ req' = [req EXCEPT ![v].cart = AddToCart(@, product)]
    /\ UNCHANGED <<kv, minted, today, pre, run>>

\* the - button of a cart entry
WaiterRemoveFromCart(v, productId) ==
    /\ req[v].op = "waiterView"
    /\ InCart(req[v].cart, productId)
    /\ req' = [req EXCEPT ![v].cart = RemoveFromCart(@, productId)]
    /\ UNCHANGED <<kv, minted, today, pre, run>>

\* if (!selectedTable || cart.length === 0) return  does not return
CanSubmit(a) == a.selectedTable # 0 /\ Len(a.cart) # 0

\* submitOrder up to its await; the button is shown with a cart that is not empty
\* and is disabled while loading
SubmitOrder(p, v, restaurantId) ==
    /\ req[v].op = "waiterView"
    /\ Len(req[v].cart) > 0 /\ ~req[v].loading
    /\ CanSubmit(req[v])
    /\ PlaceOrderFrom(p, [restaurantId |-> restaurantId,
                          tableNumber |-> req[v].selectedTable,
                          items |-> CartItems(req[v].cart)],
                      [req EXCEPT ![v].loading = TRUE])

\* submitOrder from its await on: the cart and the table are cleared when the
\* response is ok; a response that is not ok, or a fetch that rejects, leaves them
Submitted(a, ok) ==
    IF ok
    THEN [a EXCEPT !.cart = <<>>, !.selectedTable = 0, !.loading = FALSE,
                   !.alert = "Pedido enviado com sucesso!"]
    ELSE [a EXCEPT !.loading = FALSE, !.alert = "Erro ao enviar pedido"]

\* the response has arrived
SubmitOrderResolved(p, v) ==
    /\ req[v].op = "waiterView"
    /\ req[p].op = "placeOrder" /\ req[p].pc = "done"
    /\ req' = [req EXCEPT ![p] = Idle, ![v] = Submitted(@, req[p].res.status = 200)]
    /\ pre' = Snap
    /\ UNCHANGED <<kv, minted, today, run>>

\* the response is lost on its way: the fetch will reject, which submitOrder's
\* catch block handles like a response that is not ok
SubmitOrderLost(p) ==
    /\ req[p].op = "placeOrder" /\ req[p].pc = "done"
    /\ req[p].res.status = 200
    /\ req' = [req EXCEPT ![p].res = [status |-> 0, error |-> "Failed to fetch"]]
    /\ UNCHANGED <<kv, minted, today, pre, run>>

----------------------------------------------------------------------------
(* The waiter specification: the burger and the cola are in the catalog of *)
(* restaurant 1, and all but one of the order ids a run may mint went to   *)
(* delivery orders that have since been completed; slot 1 is the waiter's  *)
(* request, slot 2 the waiter's screen.  SpecWaiterSetup reaches the       *)
(* initial store of SpecWaiter from the store after signup.                *)

ColaProduct == CHOOSE b \in Catalog : b.name = "cola"

WaiterStore ==
    [SignedUpStore EXCEPT
        !.product = (<<1, 1>> :> NewProduct(1, BurgerProduct)
                     @@ <<1, 2>> :> NewProduct(2, ColaProduct))]

NextWaiterSetup(P) ==
    \E p \in P :
        \/ \E b \in {BurgerProduct, ColaProduct} : AddProduct(p, b)
        \/ PlaceOrder(p, DeliveryOrder(1, <<Cola(1)>>))
        \/ PlaceOrderGetTable(p)
        \/ PlaceOrderGetProduct(p)
        \/ \E o \in OrderIds : CompleteOrder(p, 1, o)
        \/ Return(p)

SpecWaiterSetup == InitLedger({1}, FALSE) /\ [][NextWaiterSetup({1})]_vars

WaiterStoreReachable ==
    /\ kv = WaiterStore
    /\ minted = [restaurant |-> 1, order |-> MaxOrders - 1, product |-> 2]
    /\ Quiescent

InitWaiter ==
    /\ kv = WaiterStore
    /\ req = [p \in {1, 2} |-> IF p = 2 THEN WaiterView ELSE Idle]
    /\ minted = [restaurant |-> 1, order |-> MaxOrders - 1, product |-> 2]
    /\ today = 1
    /\ pre = [on |-> FALSE, kv |-> WaiterStore, minted |-> minted]
    /\ run = NewRun(FALSE, FALSE)

NextWaiter ==
    \/ WaiterLoadProducts(1, 2, 1)
    \/ WaiterSetProducts(1, 2)
    \/ \E t \in TableInputs : SelectTable(2, t)
    \/ \E product \in req[2].products : WaiterAddToCart(2, product)
    \/ \E id \in ProductIds : WaiterRemoveFromCart(2, id)
    \/ SubmitOrder(1, 2, 1)
    \/ PlaceOrderGetTable(1)
    \/ PlaceOrderSetTable(1)
    \/ PlaceOrderGetProduct(1)
    \/ PlaceOrderGetInventory(1)
    \/ SubmitOrderResolved(1, 2)
    \/ SubmitOrderLost(1)

SpecWaiter == InitWaiter /\ [][NextWaiter]_vars

----------------------------------------------------------------------------
(* Claims about the registry                                               *)

SignupDone(p) == req[p].op = "signup" /\ req[p].pc = "done"

SignupFieldsPresent(r) == r.email # "" /\ r.password # "" /\ r.restaurantName # ""

\* C5: after a successful register exactly the tables 1..10 exist under the newly
\* minted restaurant id, each with an empty order list (listTables returns ten
\* tables), the Restaurant record exists with an empty manager password, and the
\* email index resolves the email to that id.
C5_RegisterProvisions ==
    \A p \in DOMAIN req :
        (SignupDone(p) /\ req[p].res.status = 200) =>
            LET id == req[p].restaurantId
            IN  /\ ~kvHas(pre.kv.restaurant, id)
                /\ {k \in DOMAIN kv.table : k[1] = id} = {<<id, n>> : n \in 1..10}
                /\ \A n \in 1..10 : kv.table[<<id, n>>] = [number |-> n, orders |-> <<>>]
                /\ Cardinality(ListTables(kv, id)) = 10
                /\ kvHas(kv.restaurant, id)
                /\ kv.restaurant[id].id = id
                /\ kv.restaurant[id].email = req[p].email
                /\ kv.restaurant[id].managerPassword = ""
                /\ kvHas(kv.email, req[p].email)
                /\ kv.email[req[p].email] = id

C5_Witness == \E p \in DOMAIN req : SignupDone(p) /\ req[p].res.status = 200

\* C6 as stated: register with the token "PAID" and a fresh email succeeds, and
\* with any other token value it fails with PaymentRequired (402) and leaves the
\* store unchanged.
C6_AnyOtherTokenPaymentRequired ==
    \A p \in DOMAIN req :
        (SignupDone(p) /\ SignupFieldsPresent(req[p])) =>
            /\ (req[p].paymentToken = "PAID" /\ ~kvHas(pre.kv.email, req[p].email))
                   => req[p].res.status = 200
            /\ req[p].paymentToken # "PAID"
                   => (req[p].res.status = 402 /\ kv = pre.kv)

\* C6 amended: register with the token "PAID" and a fresh email succeeds; with any
\* other non-empty token it fails with PaymentRequired (402), with an empty token
\* it fails with the validation error (400, missing field); in both failures the
\* store is unchanged.
C6_PaymentGate ==
    \A p \in DOMAIN req :
        (SignupDone(p) /\ SignupFieldsPresent(req[p])) =>
            /\ (req[p].paymentToken = "PAID" /\ ~kvHas(pre.kv.email, req[p].email))
                   => req[p].res.status = 200
            /\ req[p].paymentToken \notin {"", "PAID"}
                   => (req[p].res.status = 402 /\ kv = pre.kv)
            /\ req[p].paymentToken = ""
                   => (req[p].res = [status |-> 400, error |-> "Missing required fields"]
                       /\ kv = pre.kv)

C6_Witness ==
    \E p \in DOMAIN req :
        /\ SignupDone(p) /\ SignupFieldsPresent(req[p])
        /\ req[p].paymentToken = "FREE"
        /\ req[p].res.status = 402
        /\ pre.kv.restaurant # EmptyMap

\* C7: a register call with the accepted token for an email the index already
\* resolves fails with DuplicateEmail and changes nothing: the store is unchanged
\* and no restaurant id is minted.
C7_DuplicateEmailRejected ==
    \A p \in DOMAIN req :
        (/\ SignupDone(p) /\ SignupFieldsPresent(req[p])
         /\ req[p].paymentToken = "PAID"
         /\ kvHas(pre.kv.email, req[p].email)) =>
            /\ req[p].res = [status |-> 400, error |-> "Email already registered"]
            /\ kv = pre.kv
            /\ minted = pre.minted

C7_Witness ==
    \E p \in DOMAIN req :
        /\ SignupDone(p) /\ req[p].paymentToken = "PAID"
        /\ kvHas(pre.kv.email, req[p].email)
        /\ req[p].res.status = 400

\* C8: email uniqueness, also when register calls run concurrently: whenever no
\* request is in flight, no two Restaurant records carry the same email and the
\* email index resolves every record's email to that record's own id.
C8_EmailUnique ==
    Quiescent =>
        /\ \A a, b \in DOMAIN kv.restaurant :
               kv.restaurant[a].email = kv.restaurant[b].email => a = b
        /\ \A a \in DOMAIN kv.restaurant :
               /\ kvHas(kv.email, kv.restaurant[a].email)
               /\ kv.email[kv.restaurant[a].email] = a

----------------------------------------------------------------------------
(* Claims about the table and order ledger                                 *)

Done(p, op) == req[p].op = op /\ req[p].pc = "done"

\* C1: after a closeTable on an existing table that ran without interleaving, the
\* table's order list is empty, every order it referenced is deleted,
\* listTableOrders returns the empty sequence, and the day's sales record has its
\* total raised by exactly subtotal * 1.10 and its count by exactly 1 (from 0 / 0
\* when the record did not exist).  Totals are in tenths: subtotal * 1.1 is
\* subtotal * 11 tenths.
C1_CloseTable ==
    \A p \in DOMAIN req :
        (Done(p, "closeTable") /\ req[p].res.status = 200) =>
            LET r == req[p]
                key == <<r.restaurantId, r.tableNumber>>
                day == <<r.restaurantId, today>>
                old == pre.kv.table[key].orders
                total0 == IF kvHas(pre.kv.sales, day) THEN pre.kv.sales[day].total ELSE 0
                count0 == IF kvHas(pre.kv.sales, day) THEN pre.kv.sales[day].count ELSE 0
            IN  /\ kvHas(kv.table, key)
                /\ kv.table[key].orders = <<>>
                /\ \A n \in 1..Len(old) : ~kvHas(kv.order, <<r.restaurantId, old[n]>>)
                /\ Len(ListTableOrders(kv, r.restaurantId, r.tableNumber)) = 0
                /\ kvHas(kv.sales, day)
                /\ kv.sales[day].total = total0 + r.subtotal * 11
                /\ kv.sales[day].count = count0 + 1

C1_Witness ==
    \E p \in DOMAIN req :
        /\ Done(p, "closeTable") /\ req[p].res.status = 200
        /\ LET r == req[p]
               old == pre.kv.table[<<r.restaurantId, r.tableNumber>>].orders
           IN  /\ Len(old) = 2
               /\ kvHas(pre.kv.order, <<r.restaurantId, old[1]>>)
               /\ kvHas(pre.kv.sales, <<r.restaurantId, today>>)

PlacedOn(restaurantId, tableNumber) ==
    SelectSeq(run.placed,
              LAMBDA e : e.restaurantId = restaurantId /\ e.tableNumber = tableNumber)

\* C2: after n sequential placeOrder calls on an existing table, begun with the
\* table empty and with no other mutation in between, the table's order list holds
\* the n ids in placement order and listTableOrders returns exactly those n
\* orders, each pending and with the items as submitted.
C2_SequentialPlaceOrders ==
    (run.ok /\ Quiescent) =>
        \A key \in DOMAIN kv.table :
            LET placed == PlacedOn(key[1], key[2])
                listed == ListTableOrders(kv, key[1], key[2])
            IN  /\ Len(kv.table[key].orders) = Len(placed)
                /\ \A n \in 1..Len(placed) : kv.table[key].orders[n] = placed[n].id
                /\ Len(listed) = Len(placed)
                /\ \A n \in 1..Len(placed) :
                       listed[n] = [id |-> placed[n].id, restaurantId |-> key[1],
                                    tableNumber |-> key[2], items |-> placed[n].items,
                                    status |-> "pending"]

C2_Witness ==
    /\ run.ok /\ Quiescent
    /\ \E key \in DOMAIN kv.table :
           /\ Len(PlacedOn(key[1], key[2])) = 2
           /\ PlacedOn(key[1], key[2])[1].items # PlacedOn(key[1], key[2])[2].items

\* C3: the order status is one-way under every interleaving: an order whose stored
\* status is ready is never pending in a later state.
C3_StatusOneWay ==
    [][\A k \in DOMAIN kv.order :
           (kv.order[k].status = "ready" /\ k \in DOMAIN kv'.order)
               => kv'.order[k].status # "pending"]_vars

\* C4: removal is terminal under every interleaving: an order id that was minted
\* (its record written) and whose record has been deleted has no record in any
\* later state.
C4_RemovalTerminal ==
    [][\A rid \in 1..minted.restaurant, o \in 1..minted.order :
           ~kvHas(kv.order, <<rid, o>>) => ~kvHas(kv'.order, <<rid, o>>)]_vars

\* C9: whenever no request is in flight, every id in every table's order list
\* resolves to an existing order record.
C9_ListedOrdersExist ==
    Quiescent =>
        \A key \in DOMAIN kv.table :
            \A n \in 1..Len(kv.table[key].orders) :
                kvHas(kv.order, <<key[1], kv.table[key].orders[n]>>)

----------------------------------------------------------------------------
(* Claims about the inventory                                              *)

\* what one product in quantity q needs of the ingredient
Needs(product, ingredient, q) ==
    SumSeq([n \in 1..Len(product.ingredients) |->
               IF product.ingredients[n].name = ingredient
               THEN product.ingredients[n].quantity * q ELSE 0])

\* what the ordered items need of the ingredient, over the products that exist
Demand(store, restaurantId, items, ingredient) ==
    SumSeq([n \in 1..Len(items) |->
               IF kvHas(store.product, <<restaurantId, items[n].productId>>)
               THEN Needs(store.product[<<restaurantId, items[n].productId>>],
                          ingredient, items[n].quantity)
               ELSE 0])


Stock(store, restaurantId, ingredient) ==
    IF kvHas(store.inventory, <<restaurantId, ingredient>>)
    THEN store.inventory[<<restaurantId, ingredient>>].quantity ELSE 0

\* C10 as stated: after a placeOrder that ran without interleaving every
\* ingredient's stock is reduced by the sum of ingredient.quantity * item.quantity
\* over the ordered items, a missing inventory record counting as quantity 0.
C10_DeductsAlsoWithoutRecord ==
    \A p \in DOMAIN req :
        (Done(p, "placeOrder") /\ req[p].res.status = 200) =>
            \A i \in Ingredients :
                LET rid == req[p].body.restaurantId
                    need == Demand(pre.kv, rid, req[p].body.items, i)
                IN  /\ Stock(kv, rid, i) = Stock(pre.kv, rid, i) - need
                    /\ need # 0 => kvHas(kv.inventory, <<rid, i>>)

\* C10 amended: after a placeOrder that ran without interleaving, every ingredient
\* that has an inventory record has its quantity reduced by the sum of
\* ingredient.quantity * item.quantity over the ordered items (its other fields
\* unchanged), and an ingredient without an inventory record still has none.
C10_DeductsStockedIngredients ==
    \A p \in DOMAIN req :
        (Done(p, "placeOrder") /\ req[p].res.status = 200) =>
            \A i \in Ingredients :
                LET rid == req[p].body.restaurantId
                    key == <<rid, i>>
                    need == Demand(pre.kv, rid, req[p].body.items, i)
                IN  IF kvHas(pre.kv.inventory, key)
                    THEN /\ kvHas(kv.inventory, key)
                         /\ kv.inventory[key] =
                                [pre.kv.inventory[key] EXCEPT !.quantity = @ - need]
                    ELSE ~kvHas(kv.inventory, key)

C10_Witness ==
    \E p \in DOMAIN req :
        /\ Done(p, "placeOrder") /\ req[p].res.status = 200
        /\ Len(req[p].body.items) = 2
        /\ kvHas(pre.kv.inventory, <<1, "bun">>)
        /\ ~kvHas(pre.kv.inventory, <<1, "beef">>)
        /\ Demand(pre.kv, 1, req[p].body.items, "bun") >= 5
        /\ Demand(pre.kv, 1, req[p].body.items, "beef") > 0


----------------------------------------------------------------------------
(* Claims about line items                                                 *)

\* a PUT /orders/:orderId/items of slot p has returned and its order existed when
\* the request started
EditedExisting(p) ==
    /\ Done(p, "updateItems")
    /\ kvHas(pre.kv.order, <<req[p].restaurantId, req[p].orderId>>)

ItemsBefore(p) == pre.kv.order[<<req[p].restaurantId, req[p].orderId>>].items
ItemsAfter(p) == kv.order[<<req[p].restaurantId, req[p].orderId>>].items

C12_QuantitiesPositive ==
    \A key \in DOMAIN kv.order :
        HasItems(kv.order[key]) =>
            \A n \in 1..Len(kv.order[key].items) : kv.order[key].items[n].quantity > 0

\* C19: updateLineItem with a newQuantity other than 0 and an itemIndex that is a
\* position of the order succeeds and sets that item's quantity and nothing else:
\* the number and order of the items, every other item, the order's status and
\* table number, the table's order list and every inventory quantity are as they
\* were.  On an order with no record it fails with NotFound and changes nothing.
C19_SetsOnlyQuantity ==
    \A p \in DOMAIN req :
        Done(p, "updateItems") =>
            LET key == <<req[p].restaurantId, req[p].orderId>>
                idx == req[p].itemIndex
            IN  /\ (EditedExisting(p) /\ req[p].quantity # 0
                        /\ idx >= 0 /\ idx < Len(ItemsBefore(p))) =>
                       /\ req[p].res.status = 200
                       /\ Len(ItemsAfter(p)) = Len(ItemsBefore(p))
                       /\ ItemsAfter(p)[idx + 1].quantity = req[p].quantity
                       /\ \A n \in 1..Len(ItemsBefore(p)) :
                              n # idx + 1 => ItemsAfter(p)[n] = ItemsBefore(p)[n]
                       /\ kv.order[key].status = pre.kv.order[key].status
                       /\ kv.order[key].tableNumber = pre.kv.order[key].tableNumber
                       /\ kv.table = pre.kv.table
                       /\ kv.inventory = pre.kv.inventory
                       /\ kv = [pre.kv EXCEPT
                                   !.order[key].items[idx + 1].quantity = req[p].quantity]
                /\ ~kvHas(pre.kv.order, key) =>
                       /\ req[p].res.status = 404
                       /\ kv = pre.kv

\* C37: updateLineItem with a newQuantity other than 0 and an itemIndex that is
\* not a position of the existing order (negative, or the item count or more)
\* fails with an error that is not NotFound (the handler's 500) and leaves the
\* store as it was: no item is added and no quantity is changed.
C37_OutOfRangeFails ==
    \A p \in DOMAIN req :
        (/\ req[p].op = "updateItems" /\ EditedExisting(p) /\ req[p].quantity # 0
         /\ (req[p].itemIndex < 0 \/ req[p].itemIndex >= Len(ItemsBefore(p))))
            => /\ req[p].pc = "done"
               /\ req[p].res.status = 500
               /\ req[p].res.error = "Failed to update order item"
               /\ kv = pre.kv

\* the call named the position after the last item of a two-item order, with the
\* new quantity 3; it failed and the store is as it was
C37_Witness ==
    \E p \in DOMAIN req :
        /\ Done(p, "updateItems") /\ EditedExisting(p) /\ req[p].quantity = 3
        /\ req[p].itemIndex = Len(ItemsBefore(p)) /\ Len(ItemsBefore(p)) = 2
        /\ req[p].res.status = 500
        /\ kv = pre.kv

\* the second item of a two-item order is set to 3 after the order's placement
\* took a bun from the stock
C19_Witness ==
    \E p \in DOMAIN req :
        /\ EditedExisting(p) /\ req[p].res.status = 200
        /\ req[p].quantity = 3 /\ req[p].itemIndex = 1
        /\ Len(ItemsBefore(p)) = 2
        /\ ItemsBefore(p)[2].quantity = 1
        /\ ItemsAfter(p)[2].quantity = 3
        /\ kv.inventory[<<1, "bun">>].quantity < 4
        /\ Len(kv.table[<<1, 1>>].orders) > 0

----------------------------------------------------------------------------
(* Claims about the floor: readiness, completion, listings, closing        *)

\* C13: markReady on an existing order succeeds and sets its status to ready,
\* changing nothing else of the order or of the store; on an order that is ready
\* already (a second markReady) it succeeds and leaves the store as it was.  On an
\* order id with no record under that restaurant it fails with NotFound, changes
\* nothing and creates no order record.
C13_MarkReady ==
    \A p \in DOMAIN req :
        Done(p, "markReady") =>
            LET key == <<req[p].restaurantId, req[p].orderId>>
            IN  IF kvHas(pre.kv.order, key)
                THEN /\ req[p].res.status = 200
                     /\ kvHas(kv.order, key)
                     /\ kv.order[key].status = "ready"
                     /\ kv.order[key].items = pre.kv.order[key].items
                     /\ kv = [pre.kv EXCEPT !.order[key].status = "ready"]
                     /\ pre.kv.order[key].status = "ready" => kv = pre.kv
                ELSE /\ req[p].res.status = 404
                     /\ ~kvHas(kv.order, key)
                     /\ kv = pre.kv

\* a second markReady on the same order has returned
C13_Witness ==
    \E p \in DOMAIN req :
        /\ Done(p, "markReady") /\ req[p].res.status = 200
        /\ kvHas(pre.kv.order, <<req[p].restaurantId, req[p].orderId>>)
        /\ pre.kv.order[<<req[p].restaurantId, req[p].orderId>>].status = "ready"

\* C14: completeOrder succeeds and leaves no order record under the id, whatever
\* the status of the order was; every other record of the store is kept.  On an
\* id with no order record it succeeds and leaves the store unchanged, so a second
\* completeOrder has the result of the first.
C14_CompleteOrder ==
    \A p \in DOMAIN req :
        Done(p, "completeOrder") =>
            LET key == <<req[p].restaurantId, req[p].orderId>>
            IN  /\ req[p].res.status = 200
                /\ ~kvHas(kv.order, key)
                /\ kv = [pre.kv EXCEPT !.order =
                            [k \in DOMAIN pre.kv.order \ {key} |-> pre.kv.order[k]]]
                /\ ~kvHas(pre.kv.order, key) => kv = pre.kv

\* a second completeOrder has returned: when it started the order's record was
\* gone already (table 1 still listed the id) and another order was stored
C14_Witness ==
    \E p \in DOMAIN req :
        /\ Done(p, "completeOrder") /\ req[p].res.status = 200
        /\ req[p].restaurantId = 1
        /\ \E n \in 1..Len(pre.kv.table[<<1, 1>>].orders) :
               pre.kv.table[<<1, 1>>].orders[n] = req[p].orderId
        /\ ~kvHas(pre.kv.order, <<1, req[p].orderId>>)
        /\ pre.kv.order # EmptyMap

\* C17: closeTable on a table number that has no table record for the restaurant
\* fails with NotFound and leaves the whole store (orders, tables, sales) as it
\* was: no sale is recorded.
C17_CloseMissingTable ==
    \A p \in DOMAIN req :
        (req[p].op = "closeTable"
            /\ ~kvHas(pre.kv.table, <<req[p].restaurantId, req[p].tableNumber>>)) =>
            /\ req[p].pc = "done"
            /\ req[p].res.status = 404
            /\ kv = pre.kv

\* table 0 is closed while an order and a day's sales record are in the store
C17_Witness ==
    \E p \in DOMAIN req :
        /\ Done(p, "closeTable") /\ req[p].res.status = 404
        /\ req[p].restaurantId = 1 /\ req[p].tableNumber = 0
        /\ pre.kv.order # EmptyMap
        /\ kvHas(pre.kv.sales, <<1, today>>)

HasFood(order) == \E n \in 1..Len(order.items) : order.items[n].category = "food"

C16_TableOrders ==
    \A p \in DOMAIN req :
        Done(p, "tableOrders") =>
            LET rid == req[p].restaurantId
                key == <<rid, req[p].tableNumber>>
                ids == IF kvHas(kv.table, key) THEN kv.table[key].orders ELSE <<>>
                found == {n \in 1..Len(ids) : kvHas(kv.order, <<rid, ids[n]>>)}
                listed == req[p].orders
            IN  /\ req[p].res.status = 200
                /\ Len(listed) = Cardinality(found)
                /\ \A m \in 1..Len(listed) :
                       \E n \in found :
                           /\ listed[m] = kv.order[<<rid, ids[n]>>]
                           /\ Cardinality({x \in found : x < n}) = m - 1
                /\ listed = ListTableOrders(kv, rid, req[p].tableNumber)
                /\ kv = pre.kv

\* a table lists two ids, the first of which resolves to no record any more: the
\* call returns the one order that is left
C16_Witness ==
    \E p \in DOMAIN req :
        /\ Done(p, "tableOrders") /\ req[p].res.status = 200
        /\ Len(req[p].ids) = 2
        /\ ~kvHas(kv.order, <<req[p].restaurantId, req[p].ids[1]>>)
        /\ Len(req[p].orders) = 1
        /\ req[p].orders[1].id = req[p].ids[2]

----------------------------------------------------------------------------
(* Claims about the stock                                                  *)

\* C18: with adjustInventory calls made one at a time, an ingredient has a record
\* exactly when a call has adjusted it, and the stored quantity is the sum of all
\* deltas applied since the record was created from 0; the quantity is not
\* floored at zero: a sum below zero is stored as a negative quantity.
C18_StockIsSumOfDeltas ==
    /\ DOMAIN kv.inventory = DOMAIN run.stocked
    /\ \A key \in DOMAIN kv.inventory :
           kv.inventory[key].quantity = run.stocked[key]

\* a withdrawal from a fresh ingredient has returned: the record holds -2; and
\* the other ingredient holds 3 - 2 = 1 after a restock and a withdrawal
C18_Witness ==
    /\ \E p \in DOMAIN req : Done(p, "updateInventory")
    /\ kvHas(kv.inventory, <<1, "bun">>) /\ kv.inventory[<<1, "bun">>].quantity = -2
    /\ kvHas(kv.inventory, <<1, "beef">>) /\ kv.inventory[<<1, "beef">>].quantity = 1

----------------------------------------------------------------------------
(* Claims about orders without a table                                     *)

\* C20: placeOrder for a table number that has no table record (the cashier's
\* delivery table 0 among them) reports success; the order is stored with status
\* pending, the table number and the items of the call; every ingredient in stock
\* is reduced by what the ordered items need of it; no table record is created
\* and no table's order list receives the id.
C20_OrderWithoutTable ==
    \A p \in DOMAIN req :
        (Done(p, "placeOrder")
            /\ ~kvHas(pre.kv.table, <<req[p].body.restaurantId, req[p].body.tableNumber>>)) =>
            LET rid == req[p].body.restaurantId
                key == <<rid, req[p].orderId>>
            IN  /\ req[p].res.status = 200
                /\ ~kvHas(pre.kv.order, key)
                /\ kvHas(kv.order, key)
                /\ kv.order[key].status = "pending"
                /\ kv.order[key].tableNumber = req[p].body.tableNumber
                /\ kv.order[key].items = req[p].body.items
                /\ \A i \in Ingredients :
                       IF kvHas(pre.kv.inventory, <<rid, i>>)
                       THEN /\ kvHas(kv.inventory, <<rid, i>>)
                            /\ kv.inventory[<<rid, i>>].quantity =
                                   pre.kv.inventory[<<rid, i>>].quantity
                                       - Demand(pre.kv, rid, req[p].body.items, i)
                       ELSE ~kvHas(kv.inventory, <<rid, i>>)
                /\ DOMAIN kv.table = DOMAIN pre.kv.table
                /\ kv.table = pre.kv.table
                /\ \A t \in DOMAIN kv.table :
                       \A n \in 1..Len(kv.table[t].orders) :
                           kv.table[t].orders[n] # req[p].orderId

\* a delivery order with two burgers has returned: two buns left the stock, and
\* an earlier order is on table 1's list
C20_Witness ==
    \E p \in DOMAIN req :
        /\ Done(p, "placeOrder") /\ req[p].res.status = 200
        /\ req[p].body.tableNumber = 0
        /\ ~kvHas(kv.table, <<1, 0>>)
        /\ kv.inventory[<<1, "bun">>].quantity = pre.kv.inventory[<<1, "bun">>].quantity - 2
        /\ Len(kv.table[<<1, 1>>].orders) = 1

----------------------------------------------------------------------------
(* Claims about accounts                                                   *)

\* the email index resolves the email to a Restaurant record whose stored
\* password is the supplied one
Credentialed(store, email, password) ==
    /\ kvHas(store.email, email)
    /\ kvHas(store.restaurant, store.email[email])
    /\ store.restaurant[store.email[email]].password = password

\* what a successful login of slot p has to return
LoginReturnsAccount(p) ==
    LET rid == pre.kv.email[req[p].email]
    IN  /\ req[p].out.restaurantId = rid
        /\ req[p].out.restaurantName = pre.kv.restaurant[rid].name
        /\ req[p].out.hasManagerPassword = (pre.kv.restaurant[rid].managerPassword # "")

\* C21: authenticate succeeds exactly when the email index resolves the email to a
\* Restaurant record whose stored password equals the supplied one, and then
\* returns that restaurant's id and name and whether its manager password is
\* non-empty; in every other case it fails with InvalidCredentials; the store is
\* never modified.
C21_LoginElseInvalidCredentials ==
    \A p \in DOMAIN req :
        Done(p, "login") =>
            /\ kv = pre.kv
            /\ IF Credentialed(pre.kv, req[p].email, req[p].password)
               THEN req[p].res.status = 200 /\ LoginReturnsAccount(p)
               ELSE req[p].res.status = 401

\* C21 (as the code has it): as above, but a call with an empty email or an empty
\* password fails with the validation error for a missing field, and only the
\* other failing calls fail with InvalidCredentials.
C21_Login ==
    \A p \in DOMAIN req :
        Done(p, "login") =>
            /\ kv = pre.kv
            /\ IF Credentialed(pre.kv, req[p].email, req[p].password)
               THEN req[p].res.status = 200 /\ LoginReturnsAccount(p)
               ELSE IF req[p].email = "" \/ req[p].password = ""
               THEN req[p].res.status = 400
               ELSE /\ req[p].res.status = 401
                    /\ req[p].res.error = "Invalid credentials"

\* a login has succeeded for the second restaurant, whose manager password is
\* set, while the first restaurant has another password
C21_Witness ==
    \E p \in DOMAIN req :
        /\ Done(p, "login") /\ req[p].res.status = 200
        /\ req[p].out.restaurantId = 2
        /\ req[p].out.hasManagerPassword
        /\ kv.restaurant[1].password # req[p].password

\* C22: setManagerPassword on a known restaurant succeeds and overwrites the
\* manager password, whatever it was, changing no other field of the Restaurant
\* record and nothing else in the store; from then until the next
\* setManagerPassword on that restaurant, verifyManagerPassword succeeds exactly
\* when the supplied password is the one that was set and returns Unauthorized
\* otherwise.  On an unknown restaurant id both fail with NotFound.  A failing
\* call and every verifyManagerPassword leave the store unchanged.
C22_ManagerPassword ==
    \A p \in DOMAIN req :
        LET rid == req[p].restaurantId
        IN  /\ Done(p, "setManagerPassword") =>
                   IF kvHas(pre.kv.restaurant, rid)
                   THEN /\ req[p].res.status = 200
                        /\ kv = [pre.kv EXCEPT
                                    !.restaurant[rid].managerPassword = req[p].password]
                   ELSE /\ req[p].res.status = 404
                        /\ kv = pre.kv
            /\ Done(p, "verifyManager") =>
                   /\ kv = pre.kv
                   /\ IF ~kvHas(pre.kv.restaurant, rid) THEN req[p].res.status = 404
                      ELSE kvHas(run.manager, rid) =>
                               IF req[p].password = run.manager[rid]
                               THEN req[p].res.status = 200
                               ELSE req[p].res.status = 401

\* the manager password of restaurant 2 was set to m2 and a verification with m2
\* has succeeded, while restaurant 1 has the manager password m1
C22_Witness ==
    \E p \in DOMAIN req :
        /\ Done(p, "verifyManager") /\ req[p].res.status = 200
        /\ req[p].restaurantId = 2 /\ req[p].password = "m2"
        /\ kvHas(run.manager, 2) /\ run.manager[2] = "m2"
        /\ kvHas(run.manager, 1) /\ run.manager[1] = "m1"

\* C26: adjustInventory on an ingredient that has a record changes only the
\* record's quantity: the stored unit stays the one given when the record was
\* created, also when the call supplies another unit; when the ingredient has no
\* record, the record is created with the supplied unit.  Nothing else in the
\* store changes.
C26_UnitKept ==
    \A p \in DOMAIN req :
        Done(p, "updateInventory") =>
            LET b == req[p].body
                key == <<b.restaurantId, b.ingredient>>
            IN  /\ req[p].res.status = 200
                /\ kvHas(kv.inventory, key)
                /\ IF kvHas(pre.kv.inventory, key)
                   THEN /\ kv.inventory[key].unit = pre.kv.inventory[key].unit
                        /\ kv.inventory[key].ingredient = pre.kv.inventory[key].ingredient
                        /\ kv = [pre.kv EXCEPT !.inventory[key].quantity = @ + b.quantity]
                   ELSE /\ kv.inventory[key]
                               = [ingredient |-> b.ingredient, quantity |-> b.quantity,
                                  unit |-> b.unit]
                        /\ \A k \in DOMAIN pre.kv.inventory :
                               kv.inventory[k] = pre.kv.inventory[k]

\* buns were first stocked in un; an adjustment that names kg has returned and
\* the record is still in un
C26_Witness ==
    \E p \in DOMAIN req :
        /\ Done(p, "updateInventory")
        /\ req[p].body.ingredient = "bun" /\ req[p].body.unit = "kg"
        /\ kvHas(pre.kv.inventory, <<1, "bun">>)
        /\ pre.kv.inventory[<<1, "bun">>].unit = "un"
        /\ kv.inventory[<<1, "bun">>].unit = "un"
        /\ kv.inventory[<<1, "bun">>].quantity # pre.kv.inventory[<<1, "bun">>].quantity

----------------------------------------------------------------------------
(* Claims about sales                                                      *)

\* C23: with requests made one at a time, a Sales Record exists for (restaurant,
\* day) exactly when a closeTable has succeeded for that restaurant on that day;
\* it carries that day as its date and its count is the number of closeTable calls
\* that succeeded for the restaurant on the day (a close of a table without
\* orders counts too); the sales list of a restaurant holds one record per such
\* day and no two records of one day.
C23_OneSalesRecordPerDay ==
    /\ DOMAIN kv.sales = DOMAIN run.closes
    /\ \A key \in DOMAIN kv.sales :
           /\ kv.sales[key].date = key[2]
           /\ kv.sales[key].count = run.closes[key]
           /\ kv.sales[key].count >= 1
    /\ \A p \in DOMAIN req :
           Done(p, "listSales") =>
               /\ Cardinality(req[p].sales)
                      = Cardinality({key \in DOMAIN run.closes : key[1] = req[p].restaurantId})
               /\ \A a, b \in req[p].sales : a.date = b.date => a = b

\* the sales of restaurant 1 are listed after two closes on day 1 and one close
\* on day 2: two records, with counts 2 and 1
C23_Witness ==
    \E p \in DOMAIN req :
        /\ Done(p, "listSales") /\ req[p].restaurantId = 1
        /\ Cardinality(req[p].sales) = 2
        /\ kvHas(kv.sales, <<1, 1>>) /\ kv.sales[<<1, 1>>].count = 2
        /\ kvHas(kv.sales, <<1, 2>>) /\ kv.sales[<<1, 2>>].count = 1

----------------------------------------------------------------------------
(* Claims about partial failure                                            *)

\* C24: a placeOrder that fails in its inventory-deduction step, which comes after
\* the order write (here: the body has no items to iterate), returns an error and
\* is not rolled back: the order record stays stored with status pending and,
\* when the table has a record, the order's id stays in the table's order list.
C24_FailedOrderIsKept ==
    \A p \in DOMAIN req :
        Done(p, "placeOrder") =>
            LET rid == req[p].body.restaurantId
                tkey == <<rid, req[p].body.tableNumber>>
            IN  /\ ~HasItems(req[p].body) => req[p].res.status = 500
                /\ req[p].res.status # 200 =>
                       /\ req[p].res.error = "Failed to create order"
                       /\ ~kvHas(pre.kv.order, <<rid, req[p].orderId>>)
                       /\ kvHas(kv.order, <<rid, req[p].orderId>>)
                       /\ kv.order[<<rid, req[p].orderId>>].status = "pending"
                       /\ kvHas(pre.kv.table, tkey) =>
                              /\ kvHas(kv.table, tkey)
                              /\ kv.table[tkey].orders
                                     = Append(pre.kv.table[tkey].orders, req[p].orderId)
                       /\ kv.inventory = pre.kv.inventory

\* an order for table 1 has failed after an earlier order succeeded: table 1 lists
\* both ids
C24_Witness ==
    \E p \in DOMAIN req :
        /\ Done(p, "placeOrder") /\ req[p].res.status = 500
        /\ req[p].body.tableNumber = 1
        /\ kv.table[<<1, 1>>].orders = <<1, 2>>
        /\ req[p].orderId = 2
        /\ kvHas(kv.order, <<1, 2>>)

----------------------------------------------------------------------------
(* Claims about tenancy                                                    *)

\* the restaurant a request is made for
Tenant(r) == IF "restaurantId" \in DOMAIN r THEN r.restaurantId ELSE r.body.restaurantId

\* the records of a kind that belong to other restaurants than rid
OthersOf(m, rid) == [k \in {x \in DOMAIN m : x[1] # rid} |-> m[k]]

\* the records of a kind that belong to restaurant rid
OwnOf(m, rid) == {m[k] : k \in {x \in DOMAIN m : x[1] = rid}}

\* C25: a request made with restaurant id A (placeOrder, markReady, completeOrder,
\* updateLineItem, closeTable, adjustInventory, product create and delete,
\* setManagerPassword, and the lists) leaves every table, order, product,
\* inventory item, sales record and Restaurant record of every other restaurant
\* as it was when the request started, and a list made for A returns A's records
\* and no record of another restaurant.
C25_Isolation ==
    \A p \in DOMAIN req :
        req[p].op # "idle" =>
            LET a == Tenant(req[p])
            IN  /\ OthersOf(kv.table, a) = OthersOf(pre.kv.table, a)
                /\ OthersOf(kv.order, a) = OthersOf(pre.kv.order, a)
                /\ OthersOf(kv.product, a) = OthersOf(pre.kv.product, a)
                /\ OthersOf(kv.inventory, a) = OthersOf(pre.kv.inventory, a)
                /\ OthersOf(kv.sales, a) = OthersOf(pre.kv.sales, a)
                /\ \A b \in DOMAIN pre.kv.restaurant :
                       b # a => /\ kvHas(kv.restaurant, b)
                                /\ kv.restaurant[b] = pre.kv.restaurant[b]
                /\ DOMAIN kv.restaurant \subseteq DOMAIN pre.kv.restaurant \cup {a}
                /\ kv.email = pre.kv.email
                /\ Done(p, "getTables") => req[p].listed = OwnOf(kv.table, a)
                /\ Done(p, "getProducts") => req[p].listed = OwnOf(kv.product, a)
                /\ Done(p, "getInventory") => req[p].listed = OwnOf(kv.inventory, a)
                /\ Done(p, "listSales") => req[p].sales = OwnOf(kv.sales, a)
                /\ Done(p, "kitchenOrders") =>
                       /\ req[p].orders \subseteq OwnOf(kv.order, a)
                       /\ \A order \in req[p].orders : order.restaurantId = a
                /\ Done(p, "tableOrders") =>
                       \A n \in 1..Len(req[p].orders) :
                           /\ req[p].orders[n] \in OwnOf(kv.order, a)
                           /\ req[p].orders[n].restaurantId = a

\* restaurant 1 has completed "its" order 1, an id that belongs to an order of
\* restaurant 2, while it has an order and a product of its own: the order of
\* restaurant 2 is still stored
C25_Witness ==
    \E p \in DOMAIN req :
        /\ Done(p, "completeOrder") /\ req[p].res.status = 200
        /\ req[p].restaurantId = 1 /\ req[p].orderId = 1
        /\ kvHas(kv.order, <<2, 1>>)
        /\ kvHas(kv.order, <<1, 2>>)
        /\ kvHas(kv.product, <<1, 2>>)
        /\ kvHas(kv.sales, <<1, 1>>)

----------------------------------------------------------------------------
(* Claims about requests in flight together                                *)

\* no request is between two of its store calls
Settled == \A p \in DOMAIN req : req[p].pc \in {"idle", "done"}

\* the buns the stored orders of restaurant 1 with ids in S need
BunsNeeded(S) ==
    SumSeq([n \in 1..minted.order |->
               IF n \in S /\ kvHas(kv.order, <<1, n>>)
               THEN Demand(kv, 1, kv.order[<<1, n>>].items, "bun") ELSE 0])

BunsAtStart == StockedStore.inventory[<<1, "bun">>].quantity

\* C27: with placeOrder calls in flight together the decrement of one can be
\* lost.  Whenever no call is under way and an order has been placed, the bun
\* stock is the starting stock less the needs of some, not necessarily all, of
\* the orders placed: a call that read the quantity before another call wrote it
\* writes back its own result only.
C27_DecrementsOfSomeOrders ==
    (Settled /\ minted.order > 0) =>
        \E S \in SUBSET (1..minted.order) :
            /\ S # {}
            /\ kv.inventory[<<1, "bun">>].quantity = BunsAtStart - BunsNeeded(S)

\* two calls, for one and for two burgers, have both returned success; both read
\* the starting quantity and the stock has dropped by one of the two amounts only
C27_Witness ==
    /\ \A p \in DOMAIN req : Done(p, "placeOrder") /\ req[p].res.status = 200
    /\ req[1].body.items[1].quantity = 1
    /\ req[2].body.items[1].quantity = 2
    /\ req[1].current.quantity = BunsAtStart - 1
    /\ req[2].current.quantity = BunsAtStart - 2
    /\ kv.inventory[<<1, "bun">>].quantity \in {BunsAtStart - 1, BunsAtStart - 2}
    /\ kvHas(kv.order, <<1, 1>>) /\ kvHas(kv.order, <<1, 2>>)

\* C29: with placeOrder calls on one table in flight together the link of one can
\* be lost.  Whenever no call is under way, every placed order has its record,
\* and table 1 lists, without repetition, some (at least one, not necessarily all)
\* of the placed orders; an order that is not listed is not returned by
\* listTableOrders (and so is not among the orders closeTable deletes).
C29_LinksOfSomeOrders ==
    (Settled /\ minted.order > 0) =>
        LET list == kv.table[<<1, 1>>].orders
        IN  /\ \A n \in 1..minted.order : kvHas(kv.order, <<1, n>>)
            /\ Len(list) >= 1
            /\ \A n \in 1..Len(list) : list[n] \in 1..minted.order
            /\ \A m, n \in 1..Len(list) : list[m] = list[n] => m = n
            /\ LET listed == ListTableOrders(kv, 1, 1)
               IN  /\ Len(listed) = Len(list)
                   /\ \A n \in 1..Len(list) : listed[n].id = list[n]

\* two calls on table 1 have both returned success and both orders are stored,
\* but table 1 lists one id only
C29_Witness ==
    /\ \A p \in DOMAIN req : Done(p, "placeOrder") /\ req[p].res.status = 200
    /\ req[1].orderId # req[2].orderId
    /\ kvHas(kv.order, <<1, req[1].orderId>>) /\ kvHas(kv.order, <<1, req[2].orderId>>)
    /\ Len(kv.table[<<1, 1>>].orders) = 1
    /\ Len(ListTableOrders(kv, 1, 1)) = 1

\* C28: with closeTable calls of one restaurant in flight together on one day the
\* sales update of one can be lost.  The day's record exists once a close has
\* completed; its count is at least 1 and at most the number of closes completed,
\* and its total is the sum of as many surcharged subtotals as the count says: a
\* call that read the record before another call wrote it writes back its own
\* result only.
C28_SalesOfSomeCloses ==
    /\ DOMAIN kv.sales = DOMAIN run.closes
    /\ \A key \in DOMAIN kv.sales :
           /\ kv.sales[key].count >= 1
           /\ kv.sales[key].count <= run.closes[key]
           /\ \E a \in 0..kv.sales[key].count :
                  kv.sales[key].total = a * (10 * 11) + (kv.sales[key].count - a) * (25 * 11)

\* tables 1 and 2 were closed together, with subtotals 10 and 25; both calls have
\* returned success, and the day's record counts one sale and holds one of the
\* two surcharged subtotals
C28_Witness ==
    /\ \A p \in DOMAIN req : Done(p, "closeTable") /\ req[p].res.status = 200
    /\ req[1].tableNumber = 1 /\ req[1].subtotal = 10
    /\ req[2].tableNumber = 2 /\ req[2].subtotal = 25
    /\ run.closes[<<1, 1>>] = 2
    /\ kv.sales[<<1, 1>>].count = 1
    /\ kv.sales[<<1, 1>>].total \in {10 * 11, 25 * 11}

\* table 1 of restaurant 1 lists the order id
ListedOnTable1(id) ==
    \E n \in 1..Len(kv.table[<<1, 1>>].orders) : kv.table[<<1, 1>>].orders[n] = id

\* C30: when a closeTable and a placeOrder on the same table were in flight
\* together and both have returned success, the newly placed order is either
\* deleted or listed on the table (never stored but unlinked), and the table
\* lists no id of an order that has been deleted.
C30_CloseVsPlace ==
    (/\ Done(1, "placeOrder") /\ req[1].res.status = 200
     /\ Done(2, "closeTable") /\ req[2].res.status = 200)
    => /\ kvHas(kv.order, <<1, req[1].orderId>>) => ListedOnTable1(req[1].orderId)
       /\ \A n \in 1..Len(kv.table[<<1, 1>>].orders) :
              kvHas(kv.order, <<1, kv.table[<<1, 1>>].orders[n]>>)

\* the first half alone: the new order is deleted or listed
C30_StoredIsListed ==
    (/\ Done(1, "placeOrder") /\ req[1].res.status = 200
     /\ Done(2, "closeTable") /\ req[2].res.status = 200)
    => (kvHas(kv.order, <<1, req[1].orderId>>) => ListedOnTable1(req[1].orderId))

\* the second half alone: every listed id has its order record
C30_ListedIsStored ==
    (/\ Done(1, "placeOrder") /\ req[1].res.status = 200
     /\ Done(2, "closeTable") /\ req[2].res.status = 200)
    => \A n \in 1..Len(kv.table[<<1, 1>>].orders) :
           kvHas(kv.order, <<1, kv.table[<<1, 1>>].orders[n]>>)

----------------------------------------------------------------------------
(* Claims about the cashier's screen                                       *)

\* what the stored orders of the restaurant with the ids of the list are worth
StoredTotal(restaurantId, ids) ==
    SumSeq([n \in 1..Len(ids) |->
               IF kvHas(kv.order, <<restaurantId, ids[n]>>)
               THEN OrderTotal(kv.order[<<restaurantId, ids[n]>>]) ELSE 0])

\* C31: when the cashier closes a table, the subtotal sent for the sale is the
\* sum of price * quantity over the line items of exactly the orders this
\* closeTable deletes, whatever happened on the table since the screen's last
\* poll.  Stated where closeTable has read the table's list and is about to
\* delete the orders on it.
C31_SubtotalOfDeletedOrders ==
    \A p \in DOMAIN req :
        (req[p].op = "closeTable" /\ req[p].pc = "del_order" /\ req[p].k = 1)
            => req[p].subtotal = StoredTotal(req[p].restaurantId, req[p].table.orders)

----------------------------------------------------------------------------
(* Claims about a close that fails                                         *)

\* C32: a closeTable call that returns an error (a table that does not exist, a
\* body from which the subtotal cannot be read) has deleted no order and has
\* left every table's order list as it was when the call started.
C32_FailedCloseChangesNothing ==
    \A p \in DOMAIN req :
        (Done(p, "closeTable") /\ req[p].res.status # 200)
            => kv.order = pre.kv.order /\ kv.table = pre.kv.table

\* the part of it that concerns a table that does not exist
C32_MissingTableChangesNothing ==
    \A p \in DOMAIN req :
        (Done(p, "closeTable") /\ req[p].res.status = 404) => kv = pre.kv

----------------------------------------------------------------------------
(* Claims about the manager's access                                       *)

\* C33: for a restaurant on which setManagerPassword has never succeeded,
\* verifyManagerPassword answers Unauthorized (401) whatever password is
\* supplied, the empty password included.
C33_NoPasswordNoAccess ==
    \A p \in DOMAIN req :
        (/\ Done(p, "verifyManager")
         /\ kvHas(pre.kv.restaurant, req[p].restaurantId)
         /\ ~kvHas(run.manager, req[p].restaurantId))
            => req[p].res.status = 401

\* the part of it that concerns the passwords that are not empty
C33_NoPasswordNoAccessUnlessEmpty ==
    \A p \in DOMAIN req :
        (/\ Done(p, "verifyManager")
         /\ kvHas(pre.kv.restaurant, req[p].restaurantId)
         /\ ~kvHas(run.manager, req[p].restaurantId)
         /\ req[p].password # "")
            => req[p].res.status = 401

----------------------------------------------------------------------------
(* Claims about the screens                                                *)

\* C34: the screen becomes 'manager' only in the step that receives a successful
\* verify-manager response for the restaurant the application is showing; no
\* other step (a role card, going back, a refused or failed verification) leads
\* to it; and a step that leaves for the login screen clears the restaurant id.
C34_ManagerOnlyWhenVerified ==
    [][/\ (req[3].screen # "manager" /\ req'[3].screen = "manager")
              => /\ req[1].op = "verifyManager" /\ req[1].pc = "done"
                 /\ req[1].res.status = 200
                 /\ req[1].restaurantId = req[3].restaurantId
       /\ (req[3].screen # "login" /\ req'[3].screen = "login")
              => req'[3].restaurantId = 0]_vars

\* the part of it that holds: the manager screen is entered only in the step that
\* receives a successful verify-manager response, and leaving for the login
\* screen clears the restaurant id
C34_ManagerOnlyOnSuccess ==
    [][/\ (req[3].screen # "manager" /\ req'[3].screen = "manager")
              => /\ req[1].op = "verifyManager" /\ req[1].pc = "done"
                 /\ req[1].res.status = 200
       /\ (req[3].screen # "login" /\ req'[3].screen = "login")
              => req'[3].restaurantId = 0]_vars

\* a consequence of C34 on states: the manager screen is shown for a restaurant
C34_ManagerOfSomeRestaurant == req[3].screen = "manager" => req[3].restaurantId # 0

----------------------------------------------------------------------------
(* Claims about delivery orders                                            *)

\* the keys of the stored orders that were placed with tableNumber 0
DeliveryKeys(store) == {key \in DOMAIN store.order : store.order[key].tableNumber = 0}

\* C36: an order placed with tableNumber 0 is deleted by no closeTable call and
\* returned by listTableOrders for no table number: no table record 0 exists and
\* no table lists such an order, closeTable on table 0 answers 404 and changes
\* nothing, and a request during which such an order disappears from the store
\* is a completeOrder.
C36_DeliveryOrdersStay ==
    /\ \A key \in DOMAIN kv.table :
           /\ key[2] # 0
           /\ \A n \in 1..Len(kv.table[key].orders) :
                  <<key[1], kv.table[key].orders[n]>> \notin DeliveryKeys(kv)
    /\ \A p \in DOMAIN req :
           /\ (\E key \in DeliveryKeys(pre.kv) : ~kvHas(kv.order, key))
                  => req[p].op = "completeOrder"
           /\ Done(p, "closeTable") =>
                  /\ \A key \in DeliveryKeys(pre.kv) :
                         kvHas(kv.order, key) /\ kv.order[key] = pre.kv.order[key]
                  /\ req[p].tableNumber = 0 => (req[p].res.status = 404 /\ kv = pre.kv)
           /\ Done(p, "tableOrders") =>
                  \A n \in 1..Len(req[p].orders) : req[p].orders[n].tableNumber # 0

\* a closeTable on table 1 has deleted the order of table 1 and recorded the sale
\* while the delivery order placed before it is still stored
C36_Witness ==
    \E p \in DOMAIN req :
        /\ Done(p, "closeTable") /\ req[p].res.status = 200 /\ req[p].tableNumber = 1
        /\ \E key \in DOMAIN pre.kv.order :
               pre.kv.order[key].tableNumber = 1 /\ ~kvHas(kv.order, key)
        /\ DeliveryKeys(kv) # {}
        /\ DeliveryKeys(kv) = DeliveryKeys(pre.kv)

----------------------------------------------------------------------------
(* Claims about the kitchen's list after a partial failure                 *)

\* C38: listKitchenOrders succeeds in every reachable state of the store:
\* whatever placeOrder calls came before, also ones whose body had no item list,
\* the call returns the pending food orders and no error.
C38_KitchenOrdersSucceeds ==
    \A p \in DOMAIN req : Done(p, "kitchenOrders") => req[p].res.status = 200

\* the part of it that holds: the call succeeds while every pending order stored
\* has an item list
C38_KitchenOrdersSucceedsWithItems ==
    \A p \in DOMAIN req :
        (Done(p, "kitchenOrders")
            /\ \A key \in DOMAIN pre.kv.order :
                   pre.kv.order[key].status = "pending" => HasItems(pre.kv.order[key]))
            => req[p].res.status = 200

----------------------------------------------------------------------------
(* Claims about the waiter's cart                                          *)

\* the cart keeps one entry per product, each of quantity 1 or more
CartWellFormed(cart) ==
    /\ \A n, m \in 1..Len(cart) : cart[n].product.id = cart[m].product.id => n = m
    /\ \A n \in 1..Len(cart) : cart[n].quantity >= 1

\* removeFromCart on an entry of quantity 1 takes the entry out and leaves the
\* others; on an entry of a larger quantity it takes one off the quantity
RemovesOne(cart) ==
    \A n \in 1..Len(cart) :
        LET after == RemoveFromCart(cart, cart[n].product.id)
        IN  IF cart[n].quantity = 1
            THEN /\ ~InCart(after, cart[n].product.id)
                 /\ after = [m \in 1..(Len(cart) - 1) |->
                                IF m < n THEN cart[m] ELSE cart[m + 1]]
            ELSE after = [cart EXCEPT ![n].quantity = @ - 1]

\* the request the screen has sent names a table and carries the cart's items
SentWithTableAndItems ==
    req[1].op = "placeOrder" =>
        /\ req[1].body.tableNumber # 0
        /\ Len(req[1].body.items) > 0
        /\ \A n \in 1..Len(req[1].body.items) : req[1].body.items[n].quantity >= 1

\* a step that receives the outcome of the request clears the cart and the table
\* when the response is ok and the fetch did not reject, and otherwise leaves both;
\* no other step clears the table, or empties a cart of more than one unit
ClearedOnlyOnSuccess ==
    /\ (req[1].op = "placeOrder" /\ req'[1].op = "idle") =>
           \/ /\ req[1].res.status = 200
              /\ req'[2].alert = "Pedido enviado com sucesso!"
              /\ req'[2].cart = <<>> /\ req'[2].selectedTable = 0
           \/ /\ req'[2].alert = "Erro ao enviar pedido"
              /\ req'[2].cart = req[2].cart
              /\ req'[2].selectedTable = req[2].selectedTable
    /\ (req[1].op = "placeOrder" => req'[1].op = "placeOrder") =>
           /\ req[2].selectedTable # 0 => req'[2].selectedTable # 0
           /\ (req[2].cart # <<>> /\ req'[2].cart = <<>>) =>
                  (Len(req[2].cart) = 1 /\ req[2].cart[1].quantity = 1)

\* C39: after any sequence of addToCart and removeFromCart steps every product id
\* is in at most one cart entry and every entry has a quantity of 1 or more;
\* removeFromCart on an entry of quantity 1 removes the entry; submitOrder sends
\* a request only with a table selected and a cart that is not empty, and the
\* cart and the selected table are cleared only on a successful response.
C39_Cart ==
    /\ [](CartWellFormed(req[2].cart) /\ RemovesOne(req[2].cart) /\ SentWithTableAndItems)
    /\ [][ClearedOnlyOnSuccess]_vars

\* the order of table 2 for two burgers and a cola has been stored and the
\* success alert shown, the cart and the table selection are cleared
C39_Witness ==
    /\ req[2].alert = "Pedido enviado com sucesso!"
    /\ req[2].cart = <<>> /\ req[2].selectedTable = 0 /\ ~req[2].loading
    /\ \E key \in DOMAIN kv.order :
           /\ kv.order[key].tableNumber = 2
           /\ Len(kv.order[key].items) = 2
           /\ kv.order[key].items[1].productId = 1 /\ kv.order[key].items[1].quantity = 2
           /\ kv.order[key].items[2].productId = 2 /\ kv.order[key].items[2].quantity = 1

============================================================================
